---- MODULE Spec2Model ----
(***************************************************************************)
(* A model of smolagents_tools: the Result Envelope (SmolToolResult), the  *)
(* synchronous bridge of SmolTool (forward / _execute_with_kwargs) and the *)
(* adapters' execute operations with their bounded waits.                  *)
(*                                                                         *)
(* Python text is a TLA+ string.  A Python value that is written into the  *)
(* generated source of forward (a default, an argument) is the text of its *)
(* literal: "None", "30", "'duckduckgo'".                                  *)
(***************************************************************************)
EXTENDS Integers, Sequences, FiniteSets, TLC

VARIABLES
    tool,         \* the adapter whose forward is called
    supplied,     \* the keyword arguments the caller passes: name -> literal
    loopRunning,  \* an event loop is already running on the calling thread
    behaviour,    \* what the adapter's execute does once it is awaited
    pc,           \* the calling thread's position inside forward
    kwargs,       \* the kwargs forward builds and hands to _execute_with_kwargs
    coro,         \* the coroutine of execute: where it is scheduled, how it ended
    worker,       \* the worker thread of the ThreadPoolExecutor
    caught,       \* the exception the inner `except RuntimeError` has caught
    result,       \* the value asyncio.run / future.result() handed back
    runs,         \* every run of execute: thread, loop and arguments
    ret,          \* what forward gave its caller: a string or a raised exception
    envelope,     \* a constructed SmolToolResult
    projection,   \* what to_dict() made of it
    adapter,      \* the adapter whose execute is being awaited
    eargs,        \* the keyword arguments of that call of execute
    epc,          \* the position of that call
    eret,         \* what execute returned or raised
    session,      \* BashTool._session and the shell process it owns
    child,        \* the process a call of execute started and waits on
    vncGlobal,    \* vnc.py's _global_vnc_state
    vncFile,      \* the VNC state file
    atDeadline,   \* what the awaited operation had written when its wait expired
    yielded,      \* another task of the loop ran while this call was waiting
    fs,           \* the files: path -> the file there, if any
    fileStates,   \* FileEditorTool._file_states: path -> saved contents
    fargs,        \* the keyword arguments of the last call of its execute
    fret,         \* what that call returned or raised
    fbefore,      \* the files as that call found them
    sbefore,      \* the saved contents as that call found them
    fcalls,       \* the calls of FileEditorTool.execute so far
    plans,        \* PlanningTool._plans: plan id -> plan
    nextPlanId,   \* PlanningTool._next_plan_id
    nextTaskId,   \* PlanningTool._next_task_id
    pargs,        \* the keyword arguments of the last call of its execute
    pret,         \* what that call returned or raised
    pbefore,      \* the plans as that call found them
    pcalls,       \* the calls of PlanningTool.execute so far
    ownConnect,   \* connect has succeeded on the VNCComputerUseTool in use
    pglobal,      \* each process's own _global_vnc_state
    ppc,          \* each process's position inside _connect / _disconnect
    pop,          \* what that operation is storing
    found,        \* the state file as the latest setter found it
    saver,        \* the process that ran the latest setter
    wname,        \* the wrapper function of tools.py that is called
    wthread,      \* the event loop of the thread that calls it
    wbehaviour,   \* what the adapter's execute does once it is run
    wpc,          \* the calling thread's position inside the wrapper
    wresult,      \* the value bound to the wrapper's `result`
    wruns,        \* how many times execute has been run in this call
    wret,         \* what the wrapper gave its caller
    selfInputs,   \* self.inputs of the adapter whose forward is called
    installed,    \* the optional modules of the package that could be imported
    rpc,          \* whether the package has been imported
    rcall,        \* the latest call of a function of the registry
    rret,         \* what that call returned
    handles,      \* BrowserTool's _playwright, _browser, _context, _page: set or None
    bpc,          \* the position of the call of BrowserTool.execute
    bcall,        \* the arguments of that call
    bstep,        \* the await of _ensure_browser that call has come to
    bret,         \* what that call returned
    issued        \* the plan ids that calls of the planning_tool wrapper returned

bridgeVars == <<tool, supplied, loopRunning, behaviour, pc, kwargs, coro,
                worker, caught, result, runs, ret>>

envVars == <<envelope, projection>>

execVars == <<adapter, eargs, epc, eret, session, child, vncGlobal, vncFile,
              atDeadline>>

loopVars == <<yielded>>

fileVars == <<fs, fileStates, fargs, fret, fbefore, sbefore, fcalls>>

planVars == <<plans, nextPlanId, nextTaskId, pargs, pret, pbefore, pcalls>>

toolVars == <<ownConnect>>

raceVars == <<pglobal, ppc, pop, found, saver>>

ctorVars == <<selfInputs>>

regVars == <<installed, rpc, rcall, rret>>

browserVars == <<handles, bpc, bcall, bstep, bret>>

\* The parts of the package that stand by themselves.
pkgVars == <<regVars, browserVars, issued>>

wrapVars == <<wname, wthread, wbehaviour, wpc, wresult, wruns, wret>>

\* The state of the other parts of the package.
restVars == <<fileVars, planVars, toolVars, raceVars, wrapVars, ctorVars, pkgVars>>

vars == <<bridgeVars, envVars, execVars, loopVars, restVars>>

\* What a step of the bridge leaves alone.
nonBridgeVars == <<envVars, execVars, loopVars, restVars>>

\* What a step on an Envelope leaves alone.
nonEnvVars == <<bridgeVars, execVars, loopVars, restVars>>

\* What a step of an adapter's execute leaves alone.
nonExecVars == <<bridgeVars, envVars, loopVars, restVars>>

\* What a step of the bridge after the adapter's construction leaves alone.
nonCallVars == <<envVars, execVars, loopVars, fileVars, planVars, toolVars,
                 raceVars, wrapVars, pkgVars>>

\* What a call of the file editor leaves alone.
nonFileVars == <<bridgeVars, envVars, execVars, loopVars, planVars, toolVars,
                 raceVars, wrapVars, ctorVars, pkgVars>>

\* What a call of the planning tool leaves alone.
nonPlanVars == <<bridgeVars, envVars, execVars, loopVars, fileVars, toolVars,
                 raceVars, wrapVars, ctorVars, pkgVars>>

\* What a call of the registry leaves alone.
nonRegVars == <<bridgeVars, envVars, execVars, loopVars, fileVars, planVars,
                toolVars, raceVars, wrapVars, ctorVars, browserVars, issued>>

\* What a step of the browser tool leaves alone.
nonBrowserVars == <<bridgeVars, envVars, execVars, loopVars, fileVars,
                    planVars, toolVars, raceVars, wrapVars, ctorVars,
                    regVars, issued>>

\* What a call of the planning_tool wrapper leaves alone.
nonPlanWrapperVars == <<bridgeVars, envVars, execVars, loopVars, fileVars,
                        toolVars, raceVars, wrapVars, ctorVars, regVars,
                        browserVars>>

\* What a step of a wrapper function leaves alone.
nonWrapVars == <<bridgeVars, envVars, execVars, loopVars, fileVars, planVars,
                 toolVars, raceVars, ctorVars, pkgVars>>

(***************************************************************************)
(* Bounds of the model.                                                    *)
(***************************************************************************)
\* The caller leaves out at most this many of the declared inputs.
MaxOmit == 1

\* A process writes at most this many chunks to a stream during one wait.
MaxChunks == 2

\* The file editor is called at most this many times.
MaxFileCalls == 3

\* An editing session has at most this many calls.
MaxEdits == 12

\* The planning tool is called at most this many times.
MaxPlanCalls == 3

(***************************************************************************)
(* Python values and text.                                                 *)
(***************************************************************************)
\* Python's None where a text field of an Envelope holds it.
PyNone == "<None>"

\* What an f-string or str() makes of a text-or-None value.
Format(v) == IF v = PyNone THEN "None" ELSE v

\* Python truthiness of a text-or-None value.
Truthy(v) == v # "" /\ v # PyNone

StartsWith(s, p) == Len(s) >= Len(p) /\ SubSeq(s, 1, Len(p)) = p

\* str.index: the first place of sub in s, 0 when there is none.
Index(s, sub) ==
    LET hits == {i \in 1..(Len(s) - Len(sub) + 1) :
                    SubSeq(s, i, i + Len(sub) - 1) = sub}
    IN  IF hits = {} THEN 0 ELSE CHOOSE i \in hits : \A j \in hits : i <= j

\* `if s.endswith("\n"): s = s[:-1]`
StripNewline(s) ==
    IF Len(s) > 0 /\ SubSeq(s, Len(s), Len(s)) = "\n"
    THEN SubSeq(s, 1, Len(s) - 1) ELSE s

\* str.strip() of text whose only white space is line ends.
RECURSIVE Strip(_)
Strip(s) ==
    IF Len(s) > 0 /\ SubSeq(s, 1, 1) = "\n" THEN Strip(SubSeq(s, 2, Len(s)))
    ELSE IF Len(s) > 0 /\ SubSeq(s, Len(s), Len(s)) = "\n"
    THEN Strip(SubSeq(s, 1, Len(s) - 1))
    ELSE s

(***************************************************************************)
(* Result Envelope: SmolToolResult.                                        *)
(***************************************************************************)
\* A dict is a function from its keys; {} has no key.
EmptyDict == << >>

\* An optional argument: << >> when it is None, <<v>> when it is v.
IsNone(opt) == opt = << >>

\* SmolToolResult.__init__ (lines 16-24): `artifacts or {}`, the other
\* fields as given.
SmolToolResultInit(output, error, success, artifacts, base64_image, system) ==
    [output |-> output, error |-> error, success |-> success,
     artifacts |-> IF IsNone(artifacts) THEN EmptyDict ELSE artifacts[1],
     base64_image |-> base64_image, system |-> system]

\* The constructor called with output, error and success alone.
SmolToolResult(output, error, success) ==
    SmolToolResultInit(output, error, success, << >>, "", "")

\* The constructor called with system as well (bash.py lines 51, 151).
SmolToolResultSystem(output, error, success, system) ==
    SmolToolResultInit(output, error, success, << >>, "", system)

\* SmolToolResult.__str__
SmolToolResultStr(r) == IF r.success THEN r.output ELSE "Error: " \o Format(r.error)

ToDictAlwaysOptional(r) ==
    [output |-> r.output, error |-> r.error, success |-> r.success,
     artifacts |-> r.artifacts, base64_image |-> r.base64_image,
     system |-> r.system]

\* SmolToolResult.to_dict (lines 35-47): the four fixed keys, and
\* base64_image and system only when truthy.
ToDict(r) ==
    LET base == [output |-> r.output, error |-> r.error,
                 success |-> r.success, artifacts |-> r.artifacts]
        image == IF Truthy(r.base64_image)
                 THEN [base64_image |-> r.base64_image] ELSE << >>
        system == IF Truthy(r.system) THEN [system |-> r.system] ELSE << >>
    IN  base @@ image @@ system

(***************************************************************************)
(* Tool descriptors: the inputs each adapter declares, in declaration      *)
(* order.                                                                  *)
(***************************************************************************)
Req(n) == [name |-> n, required |-> TRUE, has_default |-> FALSE, default |-> "None"]
Opt(n) == [name |-> n, required |-> FALSE, has_default |-> FALSE, default |-> "None"]
OptD(n, d) == [name |-> n, required |-> FALSE, has_default |-> TRUE, default |-> d]

SmolToolInputs == << >>
BashInputs == << Req("command") >>
PythonExecutorInputs == << Req("code"), OptD("timeout", "30") >>
FileEditorInputs ==
    << Req("command"), Req("path"), Opt("file_text"), Opt("old_str"),
       Opt("new_str"), Opt("view_range") >>
FileWriterInputs == << Req("path"), Req("content") >>
WebSearchInputs ==
    << Req("query"), OptD("engine", "'duckduckgo'"), OptD("max_results", "10"),
       OptD("region", "'us-en'"), Opt("time_range") >>
PlanningInputs ==
    << Req("action"), Opt("task_description"), Opt("plan_id"), Opt("task_id"),
       Opt("subtask_title"), Opt("subtask_description"),
       OptD("priority", "'medium'"), Opt("estimated_time"),
       Opt("dependencies"), Opt("update_content") >>
VNCInputs ==
    << Req("action"), Opt("host"), OptD("port", "5900"), Opt("password"),
       Opt("x"), Opt("y"), OptD("button", "1"), Opt("key"), Opt("text"),
       Opt("filename"), Opt("width"), Opt("height"), OptD("timeout", "15"),
       OptD("img_title", "'VNC Screenshot'"),
       OptD("img_alt", "'VNC screen capture'"), OptD("display", "'true'"),
       OptD("include_in_next_call", "'true'") >>

Tools == {"smoltool", "bash", "python_executor", "file_editor", "file_writer",
          "web_search", "planning", "vnc_computer"}

Inputs(t) ==
    CASE t = "smoltool" -> SmolToolInputs
      [] t = "bash" -> BashInputs
      [] t = "python_executor" -> PythonExecutorInputs
      [] t = "file_editor" -> FileEditorInputs
      [] t = "file_writer" -> FileWriterInputs
      [] t = "web_search" -> WebSearchInputs
      [] t = "planning" -> PlanningInputs
      [] t = "vnc_computer" -> VNCInputs

InputNames(t) == {Inputs(t)[i].name : i \in 1..Len(Inputs(t))}

\* input_def.get('nullable'): no adapter declares the key.
DeclaredNullable(def) == FALSE

\* _fix_inputs_for_smolagents (lines 77-82): an input that is not required
\* gets 'nullable'; no other key is added or changed.
FixInputsForSmolagents(ins) ==
    [i \in 1..Len(ins) |->
        [name |-> ins[i].name,
         required |-> ins[i].required,
         has_default |-> ins[i].has_default,
         default |-> ins[i].default,
         nullable |-> IF ~ins[i].required THEN TRUE
                      ELSE DeclaredNullable(ins[i])]]

\* The tools whose forward the callers call: the base class and one tool
\* for each shape of declaration (no input, required only, required and
\* optional, with and without declared defaults).
ForwardTools == Tools \ {"vnc_computer"}

(***************************************************************************)
(* SmolTool._create_forward_method: the signature of the generated         *)
(* forward.                                                                *)
(***************************************************************************)
\* `defaults`: one entry per input that is not required (lines 90-100).
NumDefaults(inputs) ==
    Cardinality({i \in 1..Len(inputs) : ~inputs[i].required})

\* The default the generated source gives a parameter that has one
\* (line 109: f"{p}=None").
SignatureDefault(def) == "None"

\* The parameters of forward after `self`, in order: the last num_defaults
\* of them carry a default, the others none (lines 103-113).
ForwardParams(inputs) ==
    [i \in 1..Len(inputs) |->
        IF i > Len(inputs) - NumDefaults(inputs)
        THEN [name |-> inputs[i].name, has_default |-> TRUE,
              default |-> SignatureDefault(inputs[i])]
        ELSE [name |-> inputs[i].name, has_default |-> FALSE,
              default |-> "None"]]

\* Python's binding of a keyword call to that signature: it fails with a
\* TypeError when a parameter without default is missing or a keyword is
\* not a parameter.
Binds(params, args) ==
    /\ DOMAIN args \subseteq {params[i].name : i \in 1..Len(params)}
    /\ \A i \in 1..Len(params) :
          params[i].has_default \/ params[i].name \in DOMAIN args

\* The body of the generated forward: kwargs[name] = name for every input
\* (lines 116-126).
BoundKwargs(params, args) ==
    [n \in {params[i].name : i \in 1..Len(params)} |->
        IF n \in DOMAIN args THEN args[n]
        ELSE LET i == CHOOSE j \in 1..Len(params) : params[j].name = n
             IN  params[i].default]

(***************************************************************************)
(* Exceptions.                                                             *)
(***************************************************************************)
\* The built-in classes the bridge meets, each with its base class.
ExcBase(cls) ==
    CASE cls = "Exception" -> "BaseException"
      [] cls = "RuntimeError" -> "Exception"
      [] cls = "NotImplementedError" -> "RuntimeError"
      [] cls = "ValueError" -> "Exception"
      [] cls = "TypeError" -> "Exception"
      [] cls = "OSError" -> "Exception"
      [] OTHER -> "BaseException"

RECURSIVE IsInstance(_, _)
IsInstance(cls, of) ==
    IF cls = of THEN TRUE
    ELSE IF cls = "BaseException" THEN FALSE
    ELSE IsInstance(ExcBase(cls), of)

Exc(cls, msg) == [cls |-> cls, msg |-> msg]
NoExc == Exc("", "")

\* asyncio.run called on a thread whose loop is running.
NestedRunError ==
    Exc("RuntimeError", "asyncio.run() cannot be called from a running event loop")
\* ThreadPoolExecutor.submit when no thread can be started.
ThreadStartError == Exc("RuntimeError", "can't start new thread")
\* asyncio.run when the new event loop cannot be created.
LoopCreateError == Exc("OSError", "[Errno 24] Too many open files")
\* The base class's execute (line 172).
BaseExecuteError ==
    Exc("NotImplementedError", "Subclasses must implement execute method")
\* forward called without a parameter that has no default.
MissingArgumentError ==
    Exc("TypeError", "forward() missing required positional argument")

(***************************************************************************)
(* What execute does when awaited: return an Envelope, return something    *)
(* else, or raise.                                                         *)
(***************************************************************************)
Outcome(kind, env, text, exc) ==
    [kind |-> kind, env |-> env, text |-> text, exc |-> exc]
NoEnvelope == SmolToolResult("", "", TRUE)
NoOutcome == Outcome("none", NoEnvelope, "", NoExc)
Returns(env) == Outcome("envelope", env, "", NoExc)
ReturnsOther(text) == Outcome("other", NoEnvelope, text, NoExc)
Raises(exc) == Outcome("raise", NoEnvelope, "", exc)

Outputs == {"", "done"}
Errors == {"", "boom", PyNone}
Messages == {"", "boom"}
RaisedClasses == {"Exception", "RuntimeError", "NotImplementedError",
                  "ValueError", "OSError"}

Behaviours(t) ==
    IF t = "smoltool" THEN {Raises(BaseExecuteError)}
    ELSE {Returns(SmolToolResult(o, e, s)) :
             o \in Outputs, e \in Errors, s \in BOOLEAN}
         \cup {ReturnsOther("None")}
         \cup {Raises(Exc(c, m)) : c \in RaisedClasses, m \in Messages}

(***************************************************************************)
(* SmolTool._execute_with_kwargs.                                          *)
(***************************************************************************)
\* What forward gave its caller.
NoReturn == [kind |-> "none", val |-> "", exc |-> NoExc]
ReturnStr(s) == [kind |-> "str", val |-> s, exc |-> NoExc]
Propagate(e) == [kind |-> "raised", val |-> "", exc |-> e]

BridgeLoopOnCallerLoop(running) ==
    IF running THEN "caller_loop" ELSE "transient_loop"

\* The loop the bridge runs execute on (lines 143-155): a worker thread's
\* own loop when a loop is running on the calling thread, else a transient
\* loop of the calling thread.
BridgeLoop(running) == IF running THEN "worker_loop" ELSE "transient_loop"

\* The thread that drives a loop.
LoopThread(loop) == IF loop = "worker_loop" THEN "worker" ELSE "caller"

\* A loop runs its tasks only while its thread is inside its run call: the
\* worker inside asyncio.run, the caller inside asyncio.run; the caller's
\* own running loop is held up for as long as forward has not returned.
CanRun(loop) ==
    CASE loop = "worker_loop" -> worker = "running"
      [] loop = "transient_loop" -> pc = "run"
      [] OTHER -> FALSE

ProjectOutputOnly(res) ==
    IF res.kind = "envelope" THEN res.env.output ELSE res.text

\* Lines 149-152 and 156-159: the string made of what execute returned.
Project(res) ==
    IF res.kind = "envelope"
    THEN (IF res.env.success THEN res.env.output
          ELSE "Error: " \o Format(res.env.error))
    ELSE res.text

\* The inner handler (line 153).
InnerCatches(cls) == IsInstance(cls, "RuntimeError")

OuterCatchesRuntimeErrorOnly(cls) == IsInstance(cls, "RuntimeError")

\* The outer handler (lines 160-161).
OuterCatches(cls) == IsInstance(cls, "Exception")
OuterExcept(e) ==
    IF OuterCatches(e.cls)
    THEN ReturnStr("Error executing tool: " \o e.msg)
    ELSE Propagate(e)

NoCoro == [loop |-> "none", state |-> "none", out |-> NoOutcome]

BridgeIdle ==
    /\ tool = "smoltool"
    /\ supplied = << >>
    /\ loopRunning = FALSE
    /\ behaviour = NoOutcome
    /\ pc = "idle"
    /\ kwargs = << >>
    /\ coro = NoCoro
    /\ worker = "none"
    /\ caught = NoExc
    /\ result = NoOutcome
    /\ runs = << >>
    /\ ret = NoReturn
    /\ selfInputs = FixInputsForSmolagents(Inputs(tool))

\* The subsets of S with at most k members.
RECURSIVE SubsetsUpTo(_, _)
SubsetsUpTo(S, k) ==
    IF k = 0 THEN {{}}
    ELSE LET smaller == SubsetsUpTo(S, k - 1)
         IN  smaller \cup {p \cup {x} : p \in smaller, x \in S}

\* The literal a caller passes for an argument.
ArgLiteral == "'arg'"

\* An adapter is constructed (lines 69-75) and forward(**supplied) is
\* called on it: Python binds the arguments to the generated signature,
\* the body builds kwargs and enters _execute_with_kwargs (lines 122-126,
\* 141).
Call ==
    /\ pc = "idle"
    /\ \E t \in ForwardTools, running \in BOOLEAN :
       \E omit \in SubsetsUpTo(InputNames(t), MaxOmit) :
       \E b \in Behaviours(t) :
          /\ tool' = t
          /\ selfInputs' = FixInputsForSmolagents(Inputs(t))
          /\ loopRunning' = running
          /\ behaviour' = b
          /\ supplied' = [n \in InputNames(t) \ omit |-> ArgLiteral]
          /\ IF Binds(ForwardParams(Inputs(t)), supplied')
             THEN /\ kwargs' = BoundKwargs(ForwardParams(Inputs(t)), supplied')
                  /\ pc' = "probe"
                  /\ ret' = ret
             ELSE /\ kwargs' = kwargs
                  /\ pc' = "done"
                  /\ ret' = Propagate(MissingArgumentError)
    /\ UNCHANGED <<coro, worker, caught, result, runs>>
    /\ UNCHANGED nonCallVars

\* asyncio.get_running_loop() (line 144): it raises RuntimeError when no
\* loop is running, which the inner handler catches.
Probe ==
    /\ pc = "probe"
    /\ pc' = IF loopRunning THEN "submit" ELSE "handler"
    /\ caught' = IF loopRunning THEN caught
                 ELSE Exc("RuntimeError", "no running event loop")
    /\ UNCHANGED <<tool, supplied, loopRunning, behaviour, kwargs, coro,
                   worker, result, runs, ret>>
    /\ UNCHANGED nonBridgeVars

\* executor.submit(self._run_async_in_thread, **kwargs) (lines 146-147):
\* the worker thread is started and the caller goes on to future.result().
Submit ==
    /\ pc = "submit"
    /\ worker' = "started"
    /\ pc' = "blocked"
    /\ UNCHANGED <<tool, supplied, loopRunning, behaviour, kwargs, coro,
                   caught, result, runs, ret>>
    /\ UNCHANGED nonBridgeVars

\* The executor cannot start a thread: submit raises RuntimeError, which
\* the inner handler catches.
SubmitFails ==
    /\ pc = "submit"
    /\ caught' = ThreadStartError
    /\ pc' = "handler"
    /\ UNCHANGED <<tool, supplied, loopRunning, behaviour, kwargs, coro,
                   worker, result, runs, ret>>
    /\ UNCHANGED nonBridgeVars

\* _run_async_in_thread (line 165): the worker calls asyncio.run, which
\* makes the worker's own loop and schedules the coroutine of execute on it.
WorkerStart ==
    /\ worker = "started"
    /\ worker' = "running"
    /\ coro' = [loop |-> BridgeLoop(loopRunning), state |-> "scheduled",
                out |-> NoOutcome]
    /\ UNCHANGED <<tool, supplied, loopRunning, behaviour, pc, kwargs,
                   caught, result, runs, ret>>
    /\ UNCHANGED nonBridgeVars

\* asyncio.run in the worker cannot make its loop: the worker ends with
\* that exception and the coroutine never runs.
WorkerLoopFails ==
    /\ worker = "started"
    /\ worker' = "finished"
    /\ coro' = [loop |-> "none", state |-> "finished",
                out |-> Raises(LoopCreateError)]
    /\ UNCHANGED <<tool, supplied, loopRunning, behaviour, pc, kwargs,
                   caught, result, runs, ret>>
    /\ UNCHANGED nonBridgeVars

\* The loop the coroutine is scheduled on runs it to its end.
Execute ==
    /\ coro.state = "scheduled"
    /\ CanRun(coro.loop)
    /\ coro' = [coro EXCEPT !.state = "finished", !.out = behaviour]
    /\ runs' = Append(runs, [thread |-> LoopThread(coro.loop),
                             loop |-> coro.loop, args |-> kwargs])
    /\ worker' = IF coro.loop = "worker_loop" THEN "finished" ELSE worker
    /\ UNCHANGED <<tool, supplied, loopRunning, behaviour, pc, kwargs,
                   caught, result, ret>>
    /\ UNCHANGED nonBridgeVars

\* future.result() (line 148) once the worker has finished: it hands back
\* what execute returned, or raises what the worker raised; the inner
\* handler takes a RuntimeError, the outer handler anything else.
Join ==
    /\ pc = "blocked"
    /\ worker = "finished"
    /\ coro.state = "finished"
    /\ IF coro.out.kind = "raise"
       THEN IF InnerCatches(coro.out.exc.cls)
            THEN /\ caught' = coro.out.exc
                 /\ pc' = "handler"
                 /\ UNCHANGED <<result, ret>>
            ELSE /\ ret' = OuterExcept(coro.out.exc)
                 /\ pc' = "done"
                 /\ UNCHANGED <<caught, result>>
       ELSE /\ result' = coro.out
            /\ pc' = "convert"
            /\ UNCHANGED <<caught, ret>>
    /\ UNCHANGED <<tool, supplied, loopRunning, behaviour, kwargs, coro,
                   worker, runs>>
    /\ UNCHANGED nonBridgeVars

\* The inner handler (line 155) on a thread with no running loop:
\* asyncio.run makes a transient loop and schedules execute on it.
HandlerRun ==
    /\ pc = "handler"
    /\ ~loopRunning
    /\ coro' = [loop |-> BridgeLoop(loopRunning), state |-> "scheduled",
                out |-> NoOutcome]
    /\ pc' = "run"
    /\ UNCHANGED <<tool, supplied, loopRunning, behaviour, kwargs, worker,
                   caught, result, runs, ret>>
    /\ UNCHANGED nonBridgeVars

\* The inner handler when the transient loop cannot be made: the exception
\* leaves the handler for the outer one.
HandlerLoopFails ==
    /\ pc = "handler"
    /\ ~loopRunning
    /\ ret' = OuterExcept(LoopCreateError)
    /\ pc' = "done"
    /\ UNCHANGED <<tool, supplied, loopRunning, behaviour, kwargs, coro,
                   worker, caught, result, runs>>
    /\ UNCHANGED nonBridgeVars

\* The inner handler (line 155) on a thread whose loop is running, reached
\* because a RuntimeError came out of the worker path: asyncio.run refuses
\* to start and its RuntimeError leaves the handler for the outer one.
HandlerNested ==
    /\ pc = "handler"
    /\ loopRunning
    /\ ret' = OuterExcept(NestedRunError)
    /\ pc' = "done"
    /\ UNCHANGED <<tool, supplied, loopRunning, behaviour, kwargs, coro,
                   worker, caught, result, runs>>
    /\ UNCHANGED nonBridgeVars

\* asyncio.run returns on the calling thread (line 155): the Envelope goes
\* on to be converted, an exception goes to the outer handler.
RunReturns ==
    /\ pc = "run"
    /\ coro.state = "finished"
    /\ IF coro.out.kind = "raise"
       THEN /\ ret' = OuterExcept(coro.out.exc)
            /\ pc' = "done"
            /\ result' = result
       ELSE /\ result' = coro.out
            /\ pc' = "convert"
            /\ ret' = ret
    /\ UNCHANGED <<tool, supplied, loopRunning, behaviour, kwargs, coro,
                   worker, caught, runs>>
    /\ UNCHANGED nonBridgeVars

\* Lines 149-152 and 156-159: forward returns the string.
Convert ==
    /\ pc = "convert"
    /\ ret' = ReturnStr(Project(result))
    /\ pc' = "done"
    /\ UNCHANGED <<tool, supplied, loopRunning, behaviour, kwargs, coro,
                   worker, caught, result, runs>>
    /\ UNCHANGED nonBridgeVars

BridgeNext ==
    \/ Call
    \/ Probe
    \/ Submit
    \/ SubmitFails
    \/ WorkerStart
    \/ WorkerLoopFails
    \/ Execute
    \/ Join
    \/ HandlerRun
    \/ HandlerLoopFails
    \/ HandlerNested
    \/ RunReturns
    \/ Convert

(***************************************************************************)
(* Envelopes: construction and projection.                                 *)
(***************************************************************************)
NoDict == [none |-> "none"]

EnvIdle ==
    /\ envelope = SmolToolResult("", "", TRUE)
    /\ projection = NoDict

ImageTexts == {"", "iVBORw0KGgo=", PyNone}
SystemTexts == {"", "tool must be restarted", PyNone}
ArtifactArgs == {<< >>, <<EmptyDict>>, <<[count |-> "3"]>>}

\* An adapter constructs an Envelope.
Construct ==
    /\ \E o \in Outputs, e \in Errors, s \in BOOLEAN, a \in ArtifactArgs,
          b \in ImageTexts, y \in SystemTexts :
          envelope' = SmolToolResultInit(o, e, s, a, b, y)
    /\ projection' = NoDict
    /\ UNCHANGED nonEnvVars

\* The Envelope is projected for serialization.
Serialize ==
    /\ projection = NoDict
    /\ projection' = ToDict(envelope)
    /\ UNCHANGED envelope
    /\ UNCHANGED nonEnvVars

EnvNext ==
    \/ Construct
    \/ Serialize

(***************************************************************************)
(* The adapters' execute: its signature and Python's binding of a call.    *)
(***************************************************************************)
P(n) == [name |-> n, has_default |-> FALSE, default |-> PyNone]
D(n, d) == [name |-> n, has_default |-> TRUE, default |-> d]

\* The parameters of each `async def execute` after `self`; each ends
\* with **kwargs.
BashExecuteParams ==
    << D("command", PyNone), D("restart", "False"), D("timeout", "120") >>
PythonExecuteParams == << P("code"), D("timeout", "30") >>
VNCExecuteParams ==
    << P("action"), D("host", PyNone), D("port", "5900"),
       D("password", PyNone), D("x", PyNone), D("y", PyNone),
       D("button", "1"), D("key", PyNone), D("text", PyNone),
       D("filename", PyNone), D("width", PyNone), D("height", PyNone),
       D("timeout", "15"), D("img_title", PyNone), D("img_alt", PyNone),
       D("display", "true"), D("include_in_next_call", "true") >>
SimpleVNCExecuteParams ==
    << P("action"), D("host", PyNone), D("port", "5900"),
       D("password", PyNone), D("x", PyNone), D("y", PyNone),
       D("key", PyNone), D("text", PyNone), D("timeout", "10") >>

\* The two tools of vnc.py, which share _global_vnc_state and the state
\* file.
VncAdapters == {"vnc_computer", "simple_vnc_computer"}

Adapters == {"bash", "python_executor", "vnc_computer"}

ExecuteParams(t) ==
    CASE t = "bash" -> BashExecuteParams
      [] t = "python_executor" -> PythonExecuteParams
      [] t = "vnc_computer" -> VNCExecuteParams
      [] t = "simple_vnc_computer" -> SimpleVNCExecuteParams

\* Python's binding of execute(**args): **kwargs takes any other keyword, a
\* parameter without default that is missing is a TypeError.
ExecuteBinds(params, args) ==
    \A i \in 1..Len(params) :
        params[i].has_default \/ params[i].name \in DOMAIN args

ExecuteMissingArgumentError ==
    Exc("TypeError", "execute() missing required positional argument")

\* The value of parameter n inside the body of the awaited execute.
Arg(n) ==
    IF n \in DOMAIN eargs THEN eargs[n]
    ELSE LET ps == ExecuteParams(adapter)
             i == CHOOSE j \in 1..Len(ps) : ps[j].name = n
         IN  ps[i].default

\* The keywords the callers of the model pass or leave out, and the value
\* they pass for each.
CallNames(t) ==
    CASE t = "bash" -> {"command", "restart"}
      [] t = "python_executor" -> {"code", "timeout"}
      [] t = "vnc_computer" -> {"action", "host", "x", "y", "key", "text"}
      [] t = "simple_vnc_computer" -> {"action", "host", "key", "text"}

\* The actions the callers ask for, "fly" being one execute does not know;
\* mouse_click and the two captures are not asked for.
Actions == {"connect", "disconnect", "mouse_move", "key_press", "type_text",
            "fly"}

ArgValue(n) ==
    CASE n = "command" -> "ls"
      [] n = "restart" -> "True"
      [] n = "code" -> "print(1)"
      [] n = "timeout" -> "1"
      [] n = "host" -> "h1"
      [] n = "x" -> "10"
      [] n = "y" -> "20"
      [] n = "key" -> "return"
      [] n = "text" -> "hi"

(***************************************************************************)
(* State of the adapters.                                                  *)
(***************************************************************************)
\* BashTool._session is None.
NoSession ==
    [exists |-> FALSE, started |-> FALSE, timed_out |-> FALSE,
     timeout |-> "", alive |-> FALSE, busy |-> FALSE,
     stdout |-> "", stderr |-> ""]

\* BashSession(timeout) after start(): the shell runs, its buffers are
\* empty.
StartedSession(timeout) ==
    [exists |-> TRUE, started |-> TRUE, timed_out |-> FALSE,
     timeout |-> timeout, alive |-> TRUE, busy |-> FALSE,
     stdout |-> "", stderr |-> ""]

\* BashSession(timeout) whose start() raised.
UnstartedSession(timeout) ==
    [exists |-> TRUE, started |-> FALSE, timed_out |-> FALSE,
     timeout |-> timeout, alive |-> FALSE, busy |-> FALSE,
     stdout |-> "", stderr |-> ""]

\* float(timeout) as an f-string prints it, for a whole number of seconds.
Float(t) == t \o ".0"

\* BashSession._sentinel
Sentinel == "<<exit>>"

NoChild ==
    [kind |-> "none", alive |-> FALSE, stdout |-> "", stderr |-> "",
     rc |-> 0, result |-> [output |-> "", success |-> FALSE]]

\* A process just started for this call.
Spawned(kind) == [NoChild EXCEPT !.kind = kind, !.alive = TRUE]

\* _load_vnc_state's result when there is no readable state file.
DefaultVncState ==
    [connected_host |-> PyNone, connection_string |-> PyNone,
     password |-> PyNone]

NoVncFile == [exists |-> FALSE, state |-> DefaultVncState]

\* _load_vnc_state (lines 23-35)
LoadVncState(file) == IF file.exists THEN file.state ELSE DefaultVncState

\* _save_vnc_state (lines 37-43)
SaveVncState(state) == [exists |-> TRUE, state |-> state]

\* VNCComputerUseTool.execute's default port.
DefaultPort == 5900

\* str() of a natural number.
RECURSIVE IntText(_)
IntText(n) ==
    IF n < 10 THEN SubSeq("0123456789", n + 1, n + 1)
    ELSE IntText(n \div 10) \o SubSeq("0123456789", (n % 10) + 1, (n % 10) + 1)

\* VNCComputerUseTool._build_connection_string
BuildConnectionString(host, port) ==
    IF port = DefaultPort THEN host
    ELSE IF port > DefaultPort THEN host \o ":" \o IntText(port - DefaultPort)
    ELSE host \o "::" \o IntText(port)

NoDeadline == [expired |-> FALSE, stdout |-> ""]

ExecIdle ==
    /\ adapter = "none"
    /\ eargs = << >>
    /\ epc = "idle"
    /\ eret = NoOutcome
    /\ session = NoSession
    /\ child = NoChild
    /\ vncFile = NoVncFile
    /\ vncGlobal = LoadVncState(vncFile)
    /\ atDeadline = NoDeadline
    /\ yielded = FALSE
    /\ ownConnect = FALSE

\* execute returns an Envelope.
Return(e) ==
    /\ epc' = "returned"
    /\ eret' = Returns(e)

(***************************************************************************)
(* A call of execute.                                                      *)
(***************************************************************************)
\* await tool.execute(**args): Python binds the arguments; a missing
\* parameter without default raises TypeError before the body runs.
ExecuteCallOf(adapters) ==
    /\ epc = "idle"
    /\ \E t \in adapters :
       \E names \in SUBSET CallNames(t) :
       \E act \in Actions :
          /\ adapter' = t
          /\ eargs' = [n \in names |->
                          IF n = "action" THEN act ELSE ArgValue(n)]
          /\ IF ExecuteBinds(ExecuteParams(t), eargs')
             THEN /\ epc' = "body"
                  /\ eret' = eret
             ELSE /\ epc' = "raised"
                  /\ eret' = Raises(ExecuteMissingArgumentError)
    /\ UNCHANGED <<session, child, vncGlobal, vncFile, atDeadline>>
    /\ UNCHANGED nonExecVars

ExecuteCall == ExecuteCallOf(Adapters)

\* A call of execute on a VNCComputerUseTool or on a
\* SimpleVNCComputerUseTool of the same process.
VncExecuteCall == ExecuteCallOf(VncAdapters)

\* The caller has its result and goes on to its next call.
NextCall ==
    /\ epc \in {"returned", "raised"}
    /\ epc' = "idle"
    /\ adapter' = "none"
    /\ eargs' = << >>
    /\ eret' = NoOutcome
    /\ child' = NoChild
    /\ atDeadline' = NoDeadline
    /\ yielded' = FALSE
    /\ UNCHANGED <<session, vncGlobal, vncFile>>
    /\ UNCHANGED <<bridgeVars, envVars, restVars>>

\* The event loop that awaits execute runs another of its tasks.  It can
\* when the coroutine of execute is suspended at an await (bash.py 76,
\* vnc.py 251), not while its thread is inside a synchronous call
\* (python_executor.py 80).
OtherTaskRuns ==
    /\ epc = "wait"
    /\ ~yielded
    /\ yielded' = TRUE
    /\ UNCHANGED <<bridgeVars, envVars, execVars, restVars>>

\* run without the test of _timed_out.
BashRunForgetsTimeout(s) ==
    IF ~s.started
    THEN /\ session' = s
         /\ Return(SmolToolResult("",
                "Bash execution failed: Session has not started.", FALSE))
    ELSE IF ~s.alive
    THEN /\ session' = s
         /\ Return(SmolToolResultSystem("",
                "bash has exited with returncode 0", FALSE,
                "tool must be restarted"))
    ELSE /\ session' = [s EXCEPT !.busy = TRUE]
         /\ epc' = "wait"
         /\ eret' = eret

(***************************************************************************)
(* BashTool.execute and BashSession.run.                                   *)
(***************************************************************************)
\* BashSession.run up to the write of the command (lines 48-65), on
\* session s; an exception it raises is caught by execute (lines 166-167).
BashRun(s) ==
    IF ~s.started
    THEN /\ session' = s
         /\ Return(SmolToolResult("",
                "Bash execution failed: Session has not started.", FALSE))
    ELSE IF ~s.alive
    THEN /\ session' = s
         /\ Return(SmolToolResultSystem("",
                "bash has exited with returncode 0", FALSE,
                "tool must be restarted"))
    ELSE IF s.timed_out
    THEN /\ session' = s
         /\ Return(SmolToolResult("",
                "Bash execution failed: timed out: bash has not returned in "
                \o s.timeout \o " seconds and must be restarted", FALSE))
    ELSE /\ session' = [s EXCEPT !.busy = TRUE]
         /\ epc' = "wait"
         /\ eret' = eret

\* BashTool.execute (lines 145-164) up to its first suspension in run.
BashBody ==
    /\ epc = "body"
    /\ adapter = "bash"
    /\ IF Arg("restart") = "True"
       THEN /\ session' = StartedSession(Float(Arg("timeout")))
            /\ Return(SmolToolResultSystem("Bash session restarted", "", TRUE,
                                           "tool has been restarted."))
       ELSE LET s == IF session.exists
                     THEN [session EXCEPT !.timeout = Float(Arg("timeout"))]
                     ELSE StartedSession(Float(Arg("timeout")))
            IN  IF Arg("command") # PyNone
                THEN BashRun(s)
                ELSE /\ session' = s
                     /\ Return(SmolToolResult("", "no command provided.",
                                              FALSE))
    /\ UNCHANGED <<adapter, eargs, child, vncGlobal, vncFile, atDeadline>>
    /\ UNCHANGED nonExecVars

\* The same, when create_subprocess_shell raises in start(): the session
\* object stays, not started (lines 149-150, 154-155, 166-167).
BashStartFails ==
    /\ epc = "body"
    /\ adapter = "bash"
    /\ Arg("restart") = "True" \/ ~session.exists
    /\ session' = UnstartedSession(Float(Arg("timeout")))
    /\ Return(SmolToolResult("",
           "Bash execution failed: [Errno 11] Resource temporarily unavailable",
           FALSE))
    /\ UNCHANGED <<adapter, eargs, child, vncGlobal, vncFile, atDeadline>>
    /\ UNCHANGED nonExecVars

BashWaiting == epc = "wait" /\ adapter = "bash"

\* The command writes to its standard output.
BashWritesOut ==
    /\ BashWaiting
    /\ session.alive /\ session.busy
    /\ \E chunk \in {"a\n", "b"} :
          /\ Len(session.stdout) + Len(chunk) <= 2 * MaxChunks
          /\ session' = [session EXCEPT !.stdout = @ \o chunk]
    /\ UNCHANGED <<adapter, eargs, epc, eret, child, vncGlobal, vncFile,
                   atDeadline>>
    /\ UNCHANGED nonExecVars

\* The command writes to its standard error.
BashWritesErr ==
    /\ BashWaiting
    /\ session.alive /\ session.busy
    /\ Len(session.stderr) + 2 <= 2 * MaxChunks
    /\ session' = [session EXCEPT !.stderr = @ \o "e\n"]
    /\ UNCHANGED <<adapter, eargs, epc, eret, child, vncGlobal, vncFile,
                   atDeadline>>
    /\ UNCHANGED nonExecVars

\* The command ends and the shell runs `echo '<<exit>>'` (line 63).
BashCommandEnds ==
    /\ BashWaiting
    /\ session.alive /\ session.busy
    /\ session' = [session EXCEPT !.stdout = @ \o Sentinel \o "\n",
                                  !.busy = FALSE]
    /\ UNCHANGED <<adapter, eargs, epc, eret, child, vncGlobal, vncFile,
                   atDeadline>>
    /\ UNCHANGED nonExecVars

\* The shell itself exits, as on the command `exit`.
BashShellExits ==
    /\ BashWaiting
    /\ session.alive /\ session.busy
    /\ session' = [session EXCEPT !.alive = FALSE, !.busy = FALSE]
    /\ UNCHANGED <<adapter, eargs, epc, eret, child, vncGlobal, vncFile,
                   atDeadline>>
    /\ UNCHANGED nonExecVars

\* What run gives `error` when the command ended in time (line 117).
BashErrorField(error) == IF Truthy(error) THEN error ELSE PyNone

\* read_until_sentinel finds the sentinel in time (lines 69-76, 106-117).
BashReadDone ==
    /\ BashWaiting
    /\ Index(session.stdout, Sentinel) > 0
    /\ LET output == SubSeq(session.stdout, 1,
                            Index(session.stdout, Sentinel) - 1)
           error == StripNewline(session.stderr)
       IN  Return(SmolToolResult(StripNewline(output),
                                 BashErrorField(error), TRUE))
    /\ session' = [session EXCEPT !.stdout = "", !.stderr = ""]
    /\ UNCHANGED <<adapter, eargs, child, vncGlobal, vncFile, atDeadline>>
    /\ UNCHANGED nonExecVars

\* asyncio.wait_for expires (lines 77-104).
BashTimeout ==
    /\ BashWaiting
    /\ LET output == StripNewline(session.stdout)
           error == StripNewline(session.stderr)
           timeout_msg == "Command timed out after " \o session.timeout
                          \o " seconds"
       IN  Return(SmolToolResult(
               output,
               IF Truthy(error)
               THEN timeout_msg \o "\nOriginal stderr: " \o error
               ELSE timeout_msg,
               FALSE))
    /\ atDeadline' = [expired |-> TRUE, stdout |-> session.stdout]
    /\ session' = [session EXCEPT !.timed_out = TRUE, !.stdout = "",
                                  !.stderr = ""]
    /\ UNCHANGED <<adapter, eargs, child, vncGlobal, vncFile>>
    /\ UNCHANGED nonExecVars

(***************************************************************************)
(* PythonExecutorTool.execute.                                             *)
(***************************************************************************)
\* Lines 65-80: the manager and the child process are started and the
\* caller waits in proc.join(timeout).
PythonBody ==
    /\ epc = "body"
    /\ adapter = "python_executor"
    /\ child' = Spawned("python")
    /\ epc' = "join"
    /\ UNCHANGED <<adapter, eargs, eret, session, vncGlobal, vncFile,
                   atDeadline>>
    /\ UNCHANGED nonExecVars

\* The manager or the process cannot be started (lines 106-110).
PythonStartFails ==
    /\ epc = "body"
    /\ adapter = "python_executor"
    /\ Return(SmolToolResult("",
           "Python execution failed: [Errno 11] Resource temporarily unavailable",
           FALSE))
    /\ UNCHANGED <<adapter, eargs, session, child, vncGlobal, vncFile,
                   atDeadline>>
    /\ UNCHANGED nonExecVars

\* The loop's thread is inside proc.join(timeout), a synchronous call.
PythonWaiting == epc = "join" /\ adapter = "python_executor"

\* _run_code: the executed code prints into the child's StringIO
\* (lines 42-44).
ChildPrints ==
    /\ PythonWaiting
    /\ child.alive
    /\ Len(child.stdout) + 2 <= 2 * MaxChunks
    /\ child' = [child EXCEPT !.stdout = @ \o "a\n"]
    /\ UNCHANGED <<adapter, eargs, epc, eret, session, vncGlobal, vncFile,
                   atDeadline>>
    /\ UNCHANGED nonExecVars

\* _run_code ends (lines 45-49): the code ran through, or raised.
ChildFinishes ==
    /\ PythonWaiting
    /\ child.alive
    /\ \E ok \in BOOLEAN :
          child' = [child EXCEPT
                       !.alive = FALSE,
                       !.result = IF ok
                                  THEN [output |-> child.stdout,
                                        success |-> TRUE]
                                  ELSE [output |-> "name 'x' is not defined",
                                        success |-> FALSE]]
    /\ UNCHANGED <<adapter, eargs, epc, eret, session, vncGlobal, vncFile,
                   atDeadline>>
    /\ UNCHANGED nonExecVars

\* join returns with the child gone (lines 83, 93-104).
PythonJoinDone ==
    /\ PythonWaiting
    /\ ~child.alive
    /\ IF child.result.success
       THEN Return(SmolToolResult(
                IF Truthy(child.result.output) THEN child.result.output
                ELSE "Code executed successfully (no output)", "", TRUE))
       ELSE Return(SmolToolResult("", child.result.output, FALSE))
    /\ UNCHANGED <<adapter, eargs, session, child, vncGlobal, vncFile,
                   atDeadline>>
    /\ UNCHANGED nonExecVars

\* join returns at the deadline with the child alive (lines 83-90).
PythonTimeout ==
    /\ PythonWaiting
    /\ child.alive
    /\ child' = [child EXCEPT !.alive = FALSE]
    /\ atDeadline' = [expired |-> TRUE, stdout |-> child.stdout]
    /\ Return(SmolToolResult(
           "Execution timeout after " \o Arg("timeout") \o " seconds",
           "Code execution timed out after " \o Arg("timeout") \o " seconds",
           FALSE))
    /\ UNCHANGED <<adapter, eargs, session, vncGlobal, vncFile>>
    /\ UNCHANGED nonExecVars

(***************************************************************************)
(* VNCComputerUseTool.execute.                                             *)
(***************************************************************************)
\* The vncdotool arguments of the actions that run one command.
IsCommandAction(action) == action \in {"mouse_move", "key_press", "type_text"}

\* The parameter check of each action (lines 484-525); "" when it passes.
VncMissing(action) ==
    CASE action = "connect" /\ ~Truthy(Arg("host")) ->
            "host is required for connect action"
      [] action = "mouse_move" /\ (Arg("x") = PyNone \/ Arg("y") = PyNone) ->
            "x and y coordinates are required for mouse_move action"
      [] action = "key_press" /\ ~Truthy(Arg("key")) ->
            "key is required for key_press action"
      [] action = "type_text" /\ ~Truthy(Arg("text")) ->
            "text is required for type_text action"
      [] OTHER -> ""

\* Lines 481-559 up to the first suspension: the dispatch on action, the
\* parameter checks, _disconnect, and in _execute_vnc_command the check of
\* the connection and the start of vncdotool.
VncBody ==
    /\ epc = "body"
    /\ adapter = "vnc_computer"
    /\ LET action == Arg("action")
           loaded == LoadVncState(vncFile)
       IN  IF action \notin {"connect", "disconnect"} /\ ~IsCommandAction(action)
           THEN /\ Return(SmolToolResult("",
                       "Unknown action: " \o action
                       \o ". Available actions: connect, disconnect, mouse_move, mouse_click, key_press, type_text, capture_screen, capture_region",
                       FALSE))
                /\ UNCHANGED <<child, vncGlobal, vncFile>>
           ELSE IF VncMissing(action) # ""
           THEN /\ Return(SmolToolResult("", VncMissing(action), FALSE))
                /\ UNCHANGED <<child, vncGlobal, vncFile>>
           ELSE IF action = "connect"
           THEN /\ child' = Spawned("connect")
                /\ epc' = "wait"
                /\ UNCHANGED <<eret, vncGlobal, vncFile>>
           ELSE IF action = "disconnect"
           THEN /\ vncGlobal' = DefaultVncState
                /\ vncFile' = NoVncFile
                /\ Return(SmolToolResult(
                       "Successfully disconnected from VNC server", "", TRUE))
                /\ UNCHANGED child
           ELSE /\ vncGlobal' = loaded
                /\ vncFile' = vncFile
                /\ IF ~Truthy(loaded.connection_string)
                   THEN /\ Return(SmolToolResult("",
                               "Not connected to VNC server. Use 'connect' action first.",
                               FALSE))
                        /\ UNCHANGED child
                   ELSE /\ child' = Spawned("command")
                        /\ epc' = "wait"
                        /\ UNCHANGED eret
    /\ UNCHANGED <<adapter, eargs, session, atDeadline>>
    /\ UNCHANGED nonExecVars

\* create_subprocess_exec raises, as when vncdotool is not installed
\* (lines 274-279, 335-340).
VncSpawnFails ==
    /\ epc = "body"
    /\ adapter = "vnc_computer"
    /\ VncMissing(Arg("action")) = ""
    /\ \/ /\ Arg("action") = "connect"
          /\ Return(SmolToolResult("",
                 "Failed to connect to VNC server: [Errno 2] No such file or directory: 'vncdotool'",
                 FALSE))
          /\ UNCHANGED vncGlobal
       \/ /\ IsCommandAction(Arg("action"))
          /\ Truthy(LoadVncState(vncFile).connection_string)
          /\ vncGlobal' = LoadVncState(vncFile)
          /\ Return(SmolToolResult("",
                 "VNC command execution error: [Errno 2] No such file or directory: 'vncdotool'",
                 FALSE))
    /\ UNCHANGED <<adapter, eargs, session, child, vncFile, atDeadline>>
    /\ UNCHANGED nonExecVars

VncWaiting == epc = "wait" /\ adapter \in VncAdapters

\* vncdotool writes to a stream.
VncProcWrites ==
    /\ VncWaiting
    /\ child.alive
    /\ \/ /\ Len(child.stdout) + 2 <= 2 * MaxChunks
          /\ child' = [child EXCEPT !.stdout = @ \o "a\n"]
       \/ /\ Len(child.stderr) + 2 <= 2 * MaxChunks
          /\ child' = [child EXCEPT !.stderr = @ \o "e\n"]
    /\ UNCHANGED <<adapter, eargs, epc, eret, session, vncGlobal, vncFile,
                   atDeadline>>
    /\ UNCHANGED nonExecVars

\* vncdotool exits.
VncProcExits ==
    /\ VncWaiting
    /\ child.alive
    /\ \E rc \in {0, 1} : child' = [child EXCEPT !.alive = FALSE, !.rc = rc]
    /\ UNCHANGED <<adapter, eargs, epc, eret, session, vncGlobal, vncFile,
                   atDeadline>>
    /\ UNCHANGED nonExecVars

\* `text or fallback`
Or(text, fallback) == IF Truthy(text) THEN text ELSE fallback

\* The output each action puts on a successful command (lines 368-400).
VncActionOutput(action) ==
    CASE action = "mouse_move" ->
            "Mouse moved to (" \o Arg("x") \o ", " \o Arg("y") \o ")"
      [] action = "key_press" -> "Key '" \o Arg("key") \o "' pressed"
      [] action = "type_text" -> "Typed text: " \o Arg("text")

\* communicate() returns in time: _connect (lines 307-322) stores the
\* connection through the three property setters, _execute_vnc_command
\* (lines 256-261) reports the command.
VncWaitDone ==
    /\ VncWaiting
    /\ ~child.alive
    /\ IF child.kind = "connect"
       THEN LET cs == BuildConnectionString(Arg("host"), DefaultPort)
                stored == [connected_host |-> Arg("host"),
                           connection_string |-> cs,
                           password |-> Arg("password")]
            IN  IF child.rc = 0
                THEN /\ vncGlobal' = stored
                     /\ vncFile' = SaveVncState(stored)
                     /\ Return(SmolToolResult(
                            "Successfully connected to VNC server at " \o cs,
                            "", TRUE))
                ELSE /\ UNCHANGED <<vncGlobal, vncFile>>
                     /\ Return(SmolToolResult("",
                            "Failed to connect to VNC server: "
                            \o Or(Strip(child.stderr), "Connection failed"),
                            FALSE))
       ELSE /\ UNCHANGED <<vncGlobal, vncFile>>
            /\ IF child.rc = 0
               THEN Return(SmolToolResult(VncActionOutput(Arg("action")),
                                          "", TRUE))
               ELSE Return(SmolToolResult("",
                        "VNC command failed: "
                        \o Or(Strip(child.stderr), "Command failed"), FALSE))
    /\ ownConnect' = (ownConnect \/ (/\ adapter = "vnc_computer"
                                      /\ child.kind = "connect"
                                      /\ child.rc = 0))
    /\ UNCHANGED <<adapter, eargs, session, child, atDeadline>>
    /\ UNCHANGED <<bridgeVars, envVars, loopVars, fileVars, planVars,
                   raceVars, wrapVars, ctorVars, pkgVars>>

\* asyncio.wait_for expires: the process is killed and reaped
\* (lines 263-272, 324-333).
VncTimeout ==
    /\ VncWaiting
    /\ child.alive
    /\ child' = [child EXCEPT !.alive = FALSE]
    /\ atDeadline' = [expired |-> TRUE, stdout |-> child.stdout]
    /\ IF child.kind = "connect"
       THEN Return(SmolToolResult("",
                "Connection to VNC server timed out after "
                \o Arg("timeout") \o " seconds", FALSE))
       ELSE Return(SmolToolResult("",
                "VNC command timed out after " \o Arg("timeout")
                \o " seconds", FALSE))
    /\ UNCHANGED <<adapter, eargs, session, vncGlobal, vncFile>>
    /\ UNCHANGED nonExecVars

\* The caller constructs another VNCComputerUseTool (lines 54-175) and
\* makes its next calls on it.  __init__ touches neither
\* _global_vnc_state nor the state file.
VncConstruct ==
    /\ epc = "idle"
    /\ ownConnect' = FALSE
    /\ UNCHANGED <<bridgeVars, envVars, execVars, loopVars, fileVars,
                   planVars, raceVars, wrapVars, ctorVars, pkgVars>>

(***************************************************************************)
(* SimpleVNCComputerUseTool.execute: every call makes a VNCComputerUseTool *)
(* of its own (line 653) and works through it, and so through the          *)
(* process's _global_vnc_state and the state file.                         *)
(***************************************************************************)
\* A setter that would first reload the state from the file.
SetAndSaveReloading(own, file, key, value) ==
    LET state == [LoadVncState(file) EXCEPT ![key] = value]
    IN  [global |-> state, file |-> SaveVncState(state)]

\* A property setter (lines 183-187, 196-200, 209-213): one key of the
\* process's own dict is assigned and the whole dict is written out; the
\* file is not read.
SetAndSave(own, file, key, value) ==
    LET state == [own EXCEPT ![key] = value]
    IN  [global |-> state, file |-> SaveVncState(state)]

\* The parameter check of each action (lines 660-684); "" when it passes.
SimpleMissing(action) ==
    CASE action = "key_press" /\ ~Truthy(Arg("key")) ->
            "key is required for key_press action"
      [] action = "type_text" /\ ~Truthy(Arg("text")) ->
            "text is required for type_text action"
      [] OTHER -> ""

\* The port of the call, a number.
Port == IF Arg("port") = "5900" THEN DefaultPort ELSE DefaultPort + 1

\* "Set connection details for the operation" (lines 666-667, 676-677,
\* 686-687): two property setters, each writing the state file.
SimpleSetsDetails ==
    LET first == SetAndSave(vncGlobal, vncFile, "connection_string",
                     BuildConnectionString(
                         Or(Arg("host"), "localhost"), Port))
    IN  SetAndSave(first.global, first.file, "password", Arg("password"))

\* Lines 651-690 up to the first suspension.
SimpleBody ==
    /\ epc = "body"
    /\ adapter = "simple_vnc_computer"
    /\ LET action == Arg("action")
       IN  IF action \notin {"connect", "disconnect", "key_press", "type_text"}
           THEN /\ Return(SmolToolResult("",
                       "Unknown action: " \o action
                       \o ". Available actions: connect, disconnect, mouse_click, key_press, type_text",
                       FALSE))
                /\ UNCHANGED <<child, vncGlobal, vncFile>>
           ELSE IF SimpleMissing(action) # ""
           THEN /\ Return(SmolToolResult("", SimpleMissing(action), FALSE))
                /\ UNCHANGED <<child, vncGlobal, vncFile>>
           ELSE IF action = "connect"
           THEN IF Arg("host") = PyNone
                THEN \* ' '.join(test_cmd) on a list that holds None
                     /\ Return(SmolToolResult("",
                            "Failed to connect to VNC server: sequence item 2: expected str instance, NoneType found",
                            FALSE))
                     /\ UNCHANGED <<child, vncGlobal, vncFile>>
                ELSE /\ child' = Spawned("connect")
                     /\ epc' = "wait"
                     /\ UNCHANGED <<eret, vncGlobal, vncFile>>
           ELSE IF action = "disconnect"
           THEN /\ vncGlobal' = DefaultVncState
                /\ vncFile' = NoVncFile
                /\ Return(SmolToolResult(
                       "Successfully disconnected from VNC server", "", TRUE))
                /\ UNCHANGED child
           ELSE /\ vncGlobal' = SimpleSetsDetails.global
                /\ vncFile' = SimpleSetsDetails.file
                /\ child' = Spawned("command")
                /\ epc' = "wait"
                /\ UNCHANGED eret
    /\ UNCHANGED <<adapter, eargs, session, atDeadline>>
    /\ UNCHANGED nonExecVars

\* create_subprocess_exec raises (lines 274-279, 335-340), in connect
\* before anything is stored, in the other actions after the details were
\* set.
SimpleSpawnFails ==
    /\ epc = "body"
    /\ adapter = "simple_vnc_computer"
    /\ SimpleMissing(Arg("action")) = ""
    /\ \/ /\ Arg("action") = "connect"
          /\ Arg("host") # PyNone
          /\ Return(SmolToolResult("",
                 "Failed to connect to VNC server: [Errno 2] No such file or directory: 'vncdotool'",
                 FALSE))
          /\ UNCHANGED <<vncGlobal, vncFile>>
       \/ /\ Arg("action") \in {"key_press", "type_text"}
          /\ vncGlobal' = SimpleSetsDetails.global
          /\ vncFile' = SimpleSetsDetails.file
          /\ Return(SmolToolResult("",
                 "VNC command execution error: [Errno 2] No such file or directory: 'vncdotool'",
                 FALSE))
    /\ UNCHANGED <<adapter, eargs, session, child, atDeadline>>
    /\ UNCHANGED nonExecVars

\* The two tools of vnc.py called one after the other in one process.
VncNext ==
    \/ VncExecuteCall
    \/ NextCall
    \/ VncBody
    \/ VncSpawnFails
    \/ VncProcWrites
    \/ VncProcExits
    \/ VncWaitDone
    \/ VncTimeout
    \/ SimpleBody
    \/ SimpleSpawnFails

ExecNext ==
    \/ ExecuteCall
    \/ NextCall
    \/ OtherTaskRuns
    \/ BashBody
    \/ BashStartFails
    \/ BashWritesOut
    \/ BashWritesErr
    \/ BashCommandEnds
    \/ BashShellExits
    \/ BashReadDone
    \/ BashTimeout
    \/ PythonBody
    \/ PythonStartFails
    \/ ChildPrints
    \/ ChildFinishes
    \/ PythonJoinDone
    \/ PythonTimeout
    \/ VncBody
    \/ VncSpawnFails
    \/ VncProcWrites
    \/ VncProcExits
    \/ VncWaitDone
    \/ VncTimeout
    \/ VncConstruct

(***************************************************************************)
(* Several processes on the VNC state file.  Each process imported vnc.py  *)
(* and so has a _global_vnc_state of its own; the file is the one thing    *)
(* they share.  A process is followed through the part of _connect after   *)
(* a successful connection test (lines 313-316) and through _disconnect    *)
(* (lines 346-355): three property setters, one after the other, nothing   *)
(* holding the file in between.                                            *)
(***************************************************************************)
Procs == {"A", "B"}

Hosts == {"h1", "h2"}

Passwords == {PyNone, "secret"}

\* The keys in the order _connect and _disconnect assign them.
Keys == <<"connected_host", "connection_string", "password">>

NoOp == [action |-> "none", values |-> DefaultVncState]

\* _connect(host, port, password) with port one above the default.
ConnectOp(host, password) ==
    [action |-> "connect",
     values |-> [connected_host |-> host,
                 connection_string |->
                     BuildConnectionString(host, DefaultPort + 1),
                 password |-> password]]

DisconnectOp == [action |-> "disconnect", values |-> DefaultVncState]

RaceIdle ==
    /\ pglobal = [p \in Procs |-> LoadVncState(vncFile)]
    /\ ppc = [p \in Procs |-> "idle"]
    /\ pop = [p \in Procs |-> NoOp]
    /\ found = NoVncFile
    /\ saver = ""

\* What a step of one of the processes leaves alone.
nonRaceVars ==
    <<adapter, eargs, epc, eret, session, child, vncGlobal, atDeadline,
      bridgeVars, envVars, loopVars, fileVars, planVars, toolVars,
      wrapVars, ctorVars, pkgVars>>

\* The connection test of _connect returned 0 (line 311).
ProcConnects(p) ==
    /\ ppc[p] = "idle"
    /\ \E host \in Hosts, password \in Passwords :
           pop' = [pop EXCEPT ![p] = ConnectOp(host, password)]
    /\ ppc' = [ppc EXCEPT ![p] = Keys[1]]
    /\ UNCHANGED <<pglobal, found, saver, vncFile>>
    /\ UNCHANGED nonRaceVars

\* _disconnect is entered (line 342).
ProcDisconnects(p) ==
    /\ ppc[p] = "idle"
    /\ pop' = [pop EXCEPT ![p] = DisconnectOp]
    /\ ppc' = [ppc EXCEPT ![p] = Keys[1]]
    /\ UNCHANGED <<pglobal, found, saver, vncFile>>
    /\ UNCHANGED nonRaceVars

\* The next of the three assignments (lines 314-316, 346-348).
ProcSetter(p) ==
    /\ \E i \in 1..Len(Keys) :
          /\ ppc[p] = Keys[i]
          /\ LET set == SetAndSave(pglobal[p], vncFile, Keys[i],
                                   pop[p].values[Keys[i]])
             IN  /\ pglobal' = [pglobal EXCEPT ![p] = set.global]
                 /\ vncFile' = set.file
          /\ ppc' = [ppc EXCEPT ![p] =
                        IF i < Len(Keys) THEN Keys[i + 1]
                        ELSE IF pop[p].action = "disconnect" THEN "remove"
                        ELSE "done"]
    /\ found' = vncFile
    /\ saver' = p
    /\ UNCHANGED pop
    /\ UNCHANGED nonRaceVars

\* _disconnect removes the state file (lines 351-355).
ProcRemoves(p) ==
    /\ ppc[p] = "remove"
    /\ vncFile' = NoVncFile
    /\ ppc' = [ppc EXCEPT ![p] = "done"]
    /\ UNCHANGED <<pglobal, pop, found, saver>>
    /\ UNCHANGED nonRaceVars

\* The operation has returned its success Envelope (lines 318-321,
\* 357-360); the process is ready for its next one.
ProcReturns(p) ==
    /\ ppc[p] = "done"
    /\ ppc' = [ppc EXCEPT ![p] = "idle"]
    /\ pop' = [pop EXCEPT ![p] = NoOp]
    /\ UNCHANGED <<pglobal, found, saver, vncFile>>
    /\ UNCHANGED nonRaceVars

\* A property getter (lines 177-181, 190-194, 203-207), as every command
\* runs it: the process's dict is replaced by what the file holds.
ProcReads(p) ==
    /\ ppc[p] = "idle"
    /\ pglobal' = [pglobal EXCEPT ![p] = LoadVncState(vncFile)]
    /\ UNCHANGED <<ppc, pop, found, saver, vncFile>>
    /\ UNCHANGED nonRaceVars

RaceNext ==
    \E p \in Procs :
        \/ ProcConnects(p)
        \/ ProcDisconnects(p)
        \/ ProcSetter(p)
        \/ ProcRemoves(p)
        \/ ProcReturns(p)
        \/ ProcReads(p)

(***************************************************************************)
(* Python text operations the file editor uses.                            *)
(***************************************************************************)
Char(s, i) == SubSeq(s, i, i)

\* s[i:] counted from 1
From(s, i) == SubSeq(s, i, Len(s))

\* str.count: the occurrences of sub in s that do not overlap, scanning
\* from the left; len(s) + 1 for the empty sub.
RECURSIVE Count(_, _)
Count(s, sub) ==
    IF sub = "" THEN Len(s) + 1
    ELSE IF Index(s, sub) = 0 THEN 0
    ELSE 1 + Count(From(s, Index(s, sub) + Len(sub)), sub)

\* str.replace: every occurrence str.count counts is replaced.
RECURSIVE Replace(_, _, _)
Replace(s, old, new) ==
    IF old = ""
    THEN IF s = "" THEN new
         ELSE new \o Char(s, 1) \o Replace(From(s, 2), old, new)
    ELSE IF Index(s, old) = 0 THEN s
    ELSE SubSeq(s, 1, Index(s, old) - 1) \o new
         \o Replace(From(s, Index(s, old) + Len(old)), old, new)

\* file.readlines(): the lines of the text, each with its line end.
RECURSIVE ReadLines(_)
ReadLines(s) ==
    IF s = "" THEN << >>
    ELSE IF Index(s, "\n") = 0 THEN << s >>
    ELSE << SubSeq(s, 1, Index(s, "\n")) >>
         \o ReadLines(From(s, Index(s, "\n") + 1))

\* str.strip(chars)
RECURSIVE StripChars(_, _)
StripChars(s, chars) ==
    IF s # "" /\ Index(chars, Char(s, 1)) > 0
    THEN StripChars(From(s, 2), chars)
    ELSE IF s # "" /\ Index(chars, Char(s, Len(s))) > 0
    THEN StripChars(SubSeq(s, 1, Len(s) - 1), chars)
    ELSE s

\* str.split(sep) for a separator of one character
RECURSIVE Split(_, _)
Split(s, sep) ==
    IF Index(s, sep) = 0 THEN << s >>
    ELSE << SubSeq(s, 1, Index(s, sep) - 1) >>
         \o Split(From(s, Index(s, sep) + 1), sep)

\* The value of a string of decimal digits.
RECURSIVE DigitsValue(_)
DigitsValue(s) ==
    IF s = "" THEN 0
    ELSE 10 * DigitsValue(SubSeq(s, 1, Len(s) - 1))
         + (Index("0123456789", Char(s, Len(s))) - 1)

IsDigits(s) ==
    s # "" /\ \A i \in 1..Len(s) : Index("0123456789", Char(s, i)) > 0

\* int(s): white space around the number and a sign are accepted; anything
\* else raises ValueError (ok is FALSE).
IntOf(s) ==
    LET t == StripChars(s, " \n")
        neg == t # "" /\ Char(t, 1) = "-"
        digits == IF t # "" /\ Index("+-", Char(t, 1)) > 0 THEN From(t, 2)
                  ELSE t
    IN  IF IsDigits(digits)
        THEN [ok |-> TRUE,
              val |-> IF neg THEN 0 - DigitsValue(digits)
                      ELSE DigitsValue(digits)]
        ELSE [ok |-> FALSE, val |-> 0]

Max(a, b) == IF a >= b THEN a ELSE b
Min(a, b) == IF a <= b THEN a ELSE b

\* seq[a:b] for a >= 0, b any integer (0-based, Python's slice).
PySlice(seq, a, b) ==
    LET stop == IF b < 0 THEN Max(0, Len(seq) + b) ELSE Min(Len(seq), b)
    IN  SubSeq(seq, a + 1, stop)

\* f"{i:6}"
RECURSIVE PadLeft(_, _)
PadLeft(s, width) == IF Len(s) >= width THEN s ELSE PadLeft(" " \o s, width)

\* The text of an integer, negative ones with their sign.
SignedText(n) == IF n < 0 THEN "-" \o IntText(0 - n) ELSE IntText(n)

(***************************************************************************)
(* FileEditorTool.                                                         *)
(***************************************************************************)
FileEditorExecuteParams ==
    << P("command"), P("path"), D("file_text", PyNone), D("old_str", PyNone),
       D("new_str", PyNone), D("view_range", PyNone), D("timeout", "30") >>

\* The files of the model, by absolute path: os.path.abspath leaves such a
\* path as it is.
Paths == {"/tmp/x.txt"}

\* What a file holds before the first call and what create is given.
FileTexts == {"", "foo bar", "foo foo", "aaa", "a\nb\n"}

OldStrs == {"foo", "aa", "zz", ""}
NewStrs == {"baz", ""}
ViewRanges == {"[1, 1]", "[2, 5]", "1,2", "[0, -1]", "abc", "[1]", "[1, 2, 3]"}

\* A file that is not there, and one that holds text.
NoFile == << >>
File(text) == << text >>
Exists(f) == f # NoFile
Content(f) == f[1]

\* len(self._file_states[path]) is kept at most this (file_editor.py 68).
MaxFileStates == 10

\* The value of parameter n of a call with the keywords args.
FileArg(args, n) ==
    IF n \in DOMAIN args THEN args[n]
    ELSE LET i == CHOOSE j \in 1..Len(FileEditorExecuteParams) :
                      FileEditorExecuteParams[j].name = n
         IN  FileEditorExecuteParams[i].default

\* The outcome of an operation: the Envelope, the file and the saved states
\* of the path afterwards.
FileOutcome(env, file, states) ==
    [env |-> env, file |-> file, states |-> states]

\* `start, end = map(int, range_str.split(','))` (lines 88-89)
ParseRange(view_range) ==
    LET parts == Split(StripChars(view_range, "[]"), ",")
    IN  IF Len(parts) = 2 /\ IntOf(parts[1]).ok /\ IntOf(parts[2]).ok
        THEN [ok |-> TRUE, start |-> IntOf(parts[1]).val,
              end |-> IntOf(parts[2]).val]
        ELSE [ok |-> FALSE, start |-> 0, end |-> 0]

\* Lines 100-102: each line behind its number.
RECURSIVE Numbered(_, _)
Numbered(lines, i) ==
    IF i > Len(lines) THEN ""
    ELSE PadLeft(IntText(i), 6) \o "|" \o lines[i] \o Numbered(lines, i + 1)

\* FileEditorTool._view_file.  The backquotes around the word view in its
\* output are written ' here: a string of this module cannot hold them.
ViewFile(path, view_range, file, states) ==
    IF ~Exists(file)
    THEN FileOutcome(SmolToolResult("", "File not found: " \o path, FALSE),
                     file, states)
    ELSE LET lines == ReadLines(Content(file))
             r == ParseRange(view_range)
             start == Max(1, r.start) - 1
             end == Min(Len(lines), r.end)
             plain == "Here's the result of running 'view' on " \o path
         IN  IF Truthy(view_range) /\ r.ok
             THEN FileOutcome(
                      SmolToolResult(
                          plain \o " (lines " \o SignedText(start + 1) \o "-"
                          \o SignedText(end) \o "):\n"
                          \o Numbered(PySlice(lines, start, end), 1),
                          "", TRUE),
                      file, states)
             ELSE FileOutcome(
                      SmolToolResult(plain \o ":\n" \o Numbered(lines, 1),
                                     "", TRUE),
                      file, states)

CreateFileOverwrites(path, file_text, file, states) ==
    FileOutcome(
        SmolToolResult("File created successfully at " \o path, "", TRUE),
        File(file_text), states)

\* FileEditorTool._create_file
CreateFile(path, file_text, file, states) ==
    IF Exists(file)
    THEN FileOutcome(
             SmolToolResult("", "File already exists: " \o path
                                \o ". Use str_replace to edit.", FALSE),
             file, states)
    ELSE FileOutcome(
             SmolToolResult("File created successfully at " \o path, "", TRUE),
             File(file_text), states)

SaveFileStateKeepsAll(file, states) == Append(states, Content(file))

\* FileEditorTool._save_file_state, for a file that exists
SaveFileState(file, states) ==
    LET saved == Append(states, Content(file))
    IN  IF Len(saved) > MaxFileStates THEN Tail(saved) ELSE saved

\* FileEditorTool._str_replace
StrReplace(path, old_str, new_str, file, states) ==
    IF ~Exists(file)
    THEN FileOutcome(SmolToolResult("", "File not found: " \o path, FALSE),
                     file, states)
    ELSE LET content == Content(file)
             saved == SaveFileState(file, states)
             count == Count(content, old_str)
         IN  IF Index(content, old_str) = 0
             THEN FileOutcome(
                      SmolToolResult("", "String not found in file: "
                                         \o old_str, FALSE),
                      file, saved)
             ELSE IF count > 1
             THEN FileOutcome(
                      SmolToolResult("",
                          "Multiple occurrences found (" \o IntText(count)
                          \o "). Please be more specific.", FALSE),
                      file, saved)
             ELSE FileOutcome(
                      SmolToolResult("String replaced successfully in "
                                     \o path, "", TRUE),
                      File(Replace(content, old_str, new_str)), saved)

\* FileEditorTool._undo_edit
UndoEdit(path, file, states) ==
    IF states = << >>
    THEN FileOutcome(
             SmolToolResult("", "No previous state found for " \o path, FALSE),
             file, states)
    ELSE FileOutcome(
             SmolToolResult("Undid last edit to " \o path, "", TRUE),
             File(states[Len(states)]), SubSeq(states, 1, Len(states) - 1))

\* The body of FileEditorTool.execute (lines 229-259).
FileEditorBody(args, file, states) ==
    LET command == FileArg(args, "command")
        path == FileArg(args, "path")
        failed(msg) == FileOutcome(SmolToolResult("", msg, FALSE), file, states)
    IN  CASE command = "view" ->
                ViewFile(path, FileArg(args, "view_range"), file, states)
          [] command = "create" ->
                IF FileArg(args, "file_text") = PyNone
                THEN failed("file_text is required for create command")
                ELSE CreateFile(path, FileArg(args, "file_text"), file, states)
          [] command = "str_replace" ->
                IF FileArg(args, "old_str") = PyNone
                   \/ FileArg(args, "new_str") = PyNone
                THEN failed("old_str and new_str are required for str_replace command")
                ELSE StrReplace(path, FileArg(args, "old_str"),
                                FileArg(args, "new_str"), file, states)
          [] command = "undo_edit" -> UndoEdit(path, file, states)
          [] OTHER ->
                failed("Unknown command: " \o command
                       \o ". Use view, create, str_replace, or undo_edit")

\* The keyword arguments of the calls of the model: those the command
\* reads, or some of them, and calls without command or without path.
FileCalls ==
    LET on(cmd, p) == [command |-> cmd, path |-> p]
    IN  UNION {
          {on("view", p)} \cup {on("view", p) @@ [view_range |-> v] :
                                    v \in ViewRanges}
          \cup {on("create", p)} \cup {on("create", p) @@ [file_text |-> t] :
                                          t \in FileTexts}
          \cup {on("str_replace", p) @@ [old_str |-> o] : o \in OldStrs}
          \cup {on("str_replace", p) @@ [old_str |-> o, new_str |-> n] :
                   o \in OldStrs, n \in NewStrs}
          \cup {on("undo_edit", p), on("delete", p)}
          \cup {[command |-> "view"], [path |-> p]}
          : p \in Paths }

FileIdle ==
    /\ fs = [p \in Paths |-> NoFile]
    /\ fileStates = [p \in Paths |-> << >>]
    /\ fargs = << >>
    /\ fret = NoOutcome
    /\ fbefore = fs
    /\ sbefore = fileStates
    /\ fcalls = 0

\* One call of FileEditorTool.execute: it has no await, so it runs from
\* the binding of its arguments to its return in one step of the loop.
FileEditorExecuteOf(calls, most) ==
    /\ fcalls < most
    /\ fcalls' = fcalls + 1
    /\ fbefore' = fs
    /\ sbefore' = fileStates
    /\ \E args \in calls :
          /\ fargs' = args
          /\ IF ExecuteBinds(FileEditorExecuteParams, args)
             THEN LET p == args["path"]
                      o == FileEditorBody(args, fs[p], fileStates[p])
                  IN  /\ fret' = Returns(o.env)
                      /\ fs' = [fs EXCEPT ![p] = o.file]
                      /\ fileStates' = [fileStates EXCEPT ![p] = o.states]
             ELSE /\ fret' = Raises(ExecuteMissingArgumentError)
                  /\ UNCHANGED <<fs, fileStates>>
    /\ UNCHANGED nonFileVars

\* A call with any of the arguments above.
FileEditorExecute == FileEditorExecuteOf(FileCalls, MaxFileCalls)

\* The calls of a long editing session on one file: the same word is
\* replaced to and fro, and edits are undone.
EditCalls ==
    {[command |-> "str_replace", path |-> p, old_str |-> o, new_str |-> n] :
        p \in Paths, o \in {"foo", "baz"}, n \in {"foo", "baz"}}
    \cup {[command |-> "undo_edit", path |-> p] : p \in Paths}

FileEditorEdit == FileEditorExecuteOf(EditCalls, MaxEdits)

\* Before the tool is first used, something else writes a file.
FileWritten ==
    /\ fcalls = 0
    /\ \E p \in Paths, t \in FileTexts :
          /\ ~Exists(fs[p])
          /\ fs' = [fs EXCEPT ![p] = File(t)]
    /\ fbefore' = fs'
    /\ UNCHANGED <<fileStates, fargs, fret, sbefore, fcalls>>
    /\ UNCHANGED nonFileVars

FileNext ==
    \/ FileEditorExecute
    \/ FileWritten

EditNext ==
    \/ FileEditorEdit
    \/ FileWritten

(***************************************************************************)
(* PlanningTool.  Time stamps, estimated times and dependencies of tasks   *)
(* are left out of the records.                                            *)
(***************************************************************************)
\* str.lower() on ASCII text
RECURSIVE Lower(_)
Lower(s) ==
    IF s = "" THEN ""
    ELSE LET c == Char(s, 1)
             k == Index("ABCDEFGHIJKLMNOPQRSTUVWXYZ", c)
         IN  (IF k > 0 THEN Char("abcdefghijklmnopqrstuvwxyz", k) ELSE c)
             \o Lower(From(s, 2))

\* `sub in s`
Contains(s, sub) == Index(s, sub) > 0

Template(title, description) == [title |-> title, description |-> description]

WebTemplates ==
    << Template("Plan and Design", "Create wireframes and plan the structure"),
       Template("Setup Project", "Initialize project structure and dependencies"),
       Template("Implement Frontend", "Create user interface components"),
       Template("Implement Backend", "Create server-side logic and APIs"),
       Template("Testing", "Test functionality and fix bugs"),
       Template("Deployment", "Deploy to production environment") >>

ApiTemplates ==
    << Template("Design API", "Define endpoints and data structures"),
       Template("Setup Framework", "Initialize API framework and dependencies"),
       Template("Implement Endpoints", "Create API endpoints and logic"),
       Template("Add Authentication", "Implement security and authentication"),
       Template("Testing", "Test API endpoints and functionality"),
       Template("Documentation", "Create API documentation") >>

AnalysisTemplates ==
    << Template("Data Collection", "Gather and prepare data sources"),
       Template("Data Cleaning", "Clean and preprocess the data"),
       Template("Exploratory Analysis", "Perform initial data exploration"),
       Template("Analysis", "Conduct detailed analysis"),
       Template("Visualization", "Create charts and visualizations"),
       Template("Report", "Compile findings into a report") >>

GenericTemplates ==
    << Template("Research and Planning", "Research requirements and plan approach"),
       Template("Setup and Preparation", "Prepare tools and environment"),
       Template("Implementation", "Execute the main work"),
       Template("Testing and Validation", "Test and validate the results"),
       Template("Documentation", "Document the process and results") >>

TemplatesCaseSensitive(task_description) ==
    LET d == task_description
    IN  IF Contains(d, "website") \/ Contains(d, "web app") THEN WebTemplates
        ELSE IF Contains(d, "api") THEN ApiTemplates
        ELSE IF Contains(d, "data analysis") \/ Contains(d, "analysis")
        THEN AnalysisTemplates
        ELSE GenericTemplates

\* The choice of the templates in _break_down_task (lines 102-137).
Templates(task_description) ==
    LET d == Lower(task_description)
    IN  IF Contains(d, "website") \/ Contains(d, "web app") THEN WebTemplates
        ELSE IF Contains(d, "api") THEN ApiTemplates
        ELSE IF Contains(d, "data analysis") \/ Contains(d, "analysis")
        THEN AnalysisTemplates
        ELSE GenericTemplates

\* _generate_plan_id, _generate_task_id: the identifier for counter n.
PlanId(n) == "plan_" \o IntText(n)
TaskId(n) == "task_" \o IntText(n)

Task(id, title, description, priority) ==
    [id |-> id, title |-> title, description |-> description,
     status |-> "pending", priority |-> priority, updates |-> << >>]

\* PlanningTool._break_down_task with _next_task_id at next.
BreakDownTask(task_description, next) ==
    LET ts == Templates(task_description)
    IN  [i \in 1..Len(ts) |->
            Task(TaskId(next + i - 1), ts[i].title, ts[i].description,
                 "medium")]

Progress(total, completed, in_progress, pending) ==
    [total_tasks |-> total, completed_tasks |-> completed,
     in_progress_tasks |-> in_progress, pending_tasks |-> pending]

\* What an operation of the tool leaves: the Envelope, the plans and the
\* two counters.
PlanOutcome(env, ps, next_plan, next_task) ==
    [env |-> env, plans |-> ps, next_plan_id |-> next_plan,
     next_task_id |-> next_task]

\* Lines 177-180: the subtasks as create_plan prints them.
RECURSIVE PrintedTasks(_, _)
PrintedTasks(tasks, i) ==
    IF i > Len(tasks) THEN ""
    ELSE IntText(i) \o ". " \o tasks[i].title \o " (ID: " \o tasks[i].id
         \o ")\n   Description: " \o tasks[i].description
         \o "\n   Status: " \o tasks[i].status \o "\n\n"
         \o PrintedTasks(tasks, i + 1)

\* PlanningTool._create_plan
CreatePlan(task_description, ps, next_plan, next_task) ==
    LET plan_id == PlanId(next_plan)
        subtasks == BreakDownTask(task_description, next_task)
        plan == [id |-> plan_id, title |-> task_description,
                 description |-> "Plan for: " \o task_description,
                 status |-> "active", tasks |-> subtasks,
                 progress |-> Progress(Len(subtasks), 0, 0, Len(subtasks))]
    IN  PlanOutcome(
            SmolToolResultInit(
                "Created plan '" \o plan_id \o "' for: " \o task_description
                \o "\n\nSubtasks:\n" \o PrintedTasks(subtasks, 1),
                "", TRUE, << [plan_id |-> plan_id, plan |-> plan] >>, "", ""),
            (plan_id :> plan) @@ ps, next_plan + 1, next_task + Len(subtasks))

\* A failed Envelope and nothing changed.
PlanFailed(msg, ps, next_plan, next_task) ==
    PlanOutcome(SmolToolResult("", msg, FALSE), ps, next_plan, next_task)

\* PlanningTool._add_task
AddTask(plan_id, title, description, priority, ps, next_plan, next_task) ==
    IF plan_id \notin DOMAIN ps
    THEN PlanFailed("Plan " \o plan_id \o " not found", ps, next_plan,
                    next_task)
    ELSE LET task_id == TaskId(next_task)
             new_task == Task(task_id, title, description, priority)
             old == ps[plan_id]
         IN  PlanOutcome(
                 SmolToolResultInit(
                     "Added task '" \o title \o "' (ID: " \o task_id
                     \o ") to plan " \o plan_id, "", TRUE,
                     << [task_id |-> task_id, task |-> new_task] >>, "", ""),
                 [ps EXCEPT ![plan_id] =
                     [old EXCEPT
                        !.tasks = Append(@, new_task),
                        !.progress.total_tasks = @ + 1,
                        !.progress.pending_tasks = @ + 1]],
                 next_plan, next_task + 1)

\* The first task of the plan with this id, 0 when there is none
\* (lines 246-250, 289-293).
FindTask(plan, task_id) ==
    LET hits == {i \in 1..Len(plan.tasks) : plan.tasks[i].id = task_id}
    IN  IF hits = {} THEN 0 ELSE CHOOSE i \in hits : \A j \in hits : i <= j

\* PlanningTool._update_task
UpdateTask(plan_id, task_id, update_content, ps, next_plan, next_task) ==
    IF plan_id \notin DOMAIN ps
    THEN PlanFailed("Plan " \o plan_id \o " not found", ps, next_plan,
                    next_task)
    ELSE IF FindTask(ps[plan_id], task_id) = 0
    THEN PlanFailed("Task " \o task_id \o " not found in plan " \o plan_id,
                    ps, next_plan, next_task)
    ELSE LET i == FindTask(ps[plan_id], task_id)
             new == [ps EXCEPT ![plan_id].tasks[i].updates =
                                   Append(@, update_content)]
         IN  PlanOutcome(
                 SmolToolResultInit(
                     "Updated task " \o task_id \o " in plan " \o plan_id,
                     "", TRUE, << [task |-> new[plan_id].tasks[i]] >>, "", ""),
                 new, next_plan, next_task)

\* f"{x:.1f}" for x = (completed / total) * 100: the tenths of a per cent,
\* rounded to the nearest, a tie to the even one.
PerCent(completed, total) ==
    LET n == completed * 1000
        q == n \div total
        r == n % total
        tenths == IF 2 * r > total \/ (2 * r = total /\ q % 2 = 1)
                  THEN q + 1 ELSE q
    IN  IntText(tenths \div 10) \o "." \o IntText(tenths % 10)

\* PlanningTool._complete_task
CompleteTask(plan_id, task_id, ps, next_plan, next_task) ==
    IF plan_id \notin DOMAIN ps
    THEN PlanFailed("Plan " \o plan_id \o " not found", ps, next_plan,
                    next_task)
    ELSE IF FindTask(ps[plan_id], task_id) = 0
    THEN PlanFailed("Task " \o task_id \o " not found in plan " \o plan_id,
                    ps, next_plan, next_task)
    ELSE LET i == FindTask(ps[plan_id], task_id)
             old == ps[plan_id]
             old_status == old.tasks[i].status
             was == old.progress
             progress ==
                 [was EXCEPT
                    !.pending_tasks =
                        IF old_status = "pending" THEN @ - 1 ELSE @,
                    !.in_progress_tasks =
                        IF old_status = "in_progress" THEN @ - 1 ELSE @,
                    !.completed_tasks = @ + 1]
             plan == [old EXCEPT !.tasks[i].status = "completed",
                                 !.progress = progress]
         IN  PlanOutcome(
                 SmolToolResultInit(
                     "Completed task '" \o plan.tasks[i].title \o "' (ID: "
                     \o task_id \o ")\nPlan progress: "
                     \o PerCent(progress.completed_tasks, progress.total_tasks)
                     \o "% complete",
                     "", TRUE,
                     << [task |-> plan.tasks[i], progress |-> progress] >>,
                     "", ""),
                 [ps EXCEPT ![plan_id] = plan], next_plan, next_task)

\* datetime.now().isoformat() as _create_plan read it; the clock of the
\* model shows one time.
CreatedAt == "2024-01-01T00:00:00"

\* Lines 344-354: the tasks as get_plan prints them; the check mark, the
\* circle and the half circle are written [x], [ ] and [~].
RECURSIVE ListedTasks(_, _)
ListedTasks(tasks, i) ==
    IF i > Len(tasks) THEN ""
    ELSE LET task == tasks[i]
             status_icon == IF task.status = "completed" THEN "[x]"
                            ELSE IF task.status = "pending" THEN "[ ]"
                            ELSE "[~]"
         IN  status_icon \o " " \o task.title \o " (ID: " \o task.id
             \o ") - " \o task.status \o "\n   " \o task.description \o "\n"
             \o (IF task.priority # "medium"
                 THEN "   Priority: " \o task.priority \o "\n" ELSE "")
             \o "\n" \o ListedTasks(tasks, i + 1)

\* PlanningTool._get_plan
GetPlan(plan_id, ps, next_plan, next_task) ==
    IF plan_id \notin DOMAIN ps
    THEN PlanFailed("Plan " \o plan_id \o " not found", ps, next_plan,
                    next_task)
    ELSE IF ps[plan_id].progress.total_tasks = 0
    THEN PlanFailed("Failed to get plan: division by zero", ps, next_plan,
                    next_task)
    ELSE LET plan == ps[plan_id]
             progress == plan.progress
         IN  PlanOutcome(
                 SmolToolResultInit(
                     "Plan: " \o plan.title \o " (ID: " \o plan_id
                     \o ")\nStatus: " \o plan.status
                     \o "\nCreated: " \o CreatedAt \o "\nProgress: "
                     \o PerCent(progress.completed_tasks,
                                progress.total_tasks)
                     \o "% complete (" \o IntText(progress.completed_tasks)
                     \o "/" \o IntText(progress.total_tasks)
                     \o " tasks)\n\nTasks:\n" \o ListedTasks(plan.tasks, 1),
                     "", TRUE, << [plan |-> plan] >>, "", ""),
                 ps, next_plan, next_task)

\* Lines 376-379: the subtasks as analyze_task prints them.
RECURSIVE SuggestedTasks(_, _)
SuggestedTasks(tasks, i) ==
    IF i > Len(tasks) THEN ""
    ELSE IntText(i) \o ". " \o tasks[i].title
         \o "\n   Description: " \o tasks[i].description
         \o "\n   Priority: " \o tasks[i].priority \o "\n\n"
         \o SuggestedTasks(tasks, i + 1)

\* PlanningTool._analyze_task: _break_down_task takes an identifier from
\* _generate_task_id for every subtask it suggests.
AnalyzeTask(task_description, ps, next_plan, next_task) ==
    LET subtasks == BreakDownTask(task_description, next_task)
    IN  PlanOutcome(
            SmolToolResultInit(
                "Analysis for task: " \o task_description
                \o "\n\nSuggested breakdown:\n" \o SuggestedTasks(subtasks, 1)
                \o "Total estimated subtasks: " \o IntText(Len(subtasks))
                \o "\nUse 'create_plan' action to create an actual plan from this analysis.",
                "", TRUE, << [suggested_subtasks |-> subtasks] >>, "", ""),
            ps, next_plan, next_task + Len(subtasks))

PlanningExecuteParams ==
    << P("action"), D("task_description", PyNone), D("plan_id", PyNone),
       D("task_id", PyNone), D("subtask_title", PyNone),
       D("subtask_description", PyNone), D("priority", "medium"),
       D("estimated_time", PyNone), D("dependencies", PyNone),
       D("update_content", PyNone), D("timeout", "30") >>

PlanArg(args, n) ==
    IF n \in DOMAIN args THEN args[n]
    ELSE LET i == CHOOSE j \in 1..Len(PlanningExecuteParams) :
                      PlanningExecuteParams[j].name = n
         IN  PlanningExecuteParams[i].default

\* The body of PlanningTool.execute (lines 422-476).
PlanningBody(args, ps, next_plan, next_task) ==
    LET action == PlanArg(args, "action")
        given(n) == Truthy(PlanArg(args, n))
        failed(msg) == PlanFailed(msg, ps, next_plan, next_task)
    IN  CASE action = "create_plan" ->
                IF ~given("task_description")
                THEN failed("task_description is required for create_plan action")
                ELSE CreatePlan(PlanArg(args, "task_description"), ps,
                                next_plan, next_task)
          [] action = "add_task" ->
                IF ~(given("plan_id") /\ given("subtask_title")
                     /\ given("subtask_description"))
                THEN failed("plan_id, subtask_title, and subtask_description are required for add_task action")
                ELSE AddTask(PlanArg(args, "plan_id"),
                             PlanArg(args, "subtask_title"),
                             PlanArg(args, "subtask_description"),
                             PlanArg(args, "priority"), ps, next_plan,
                             next_task)
          [] action = "update_task" ->
                IF ~(given("plan_id") /\ given("task_id")
                     /\ given("update_content"))
                THEN failed("plan_id, task_id, and update_content are required for update_task action")
                ELSE UpdateTask(PlanArg(args, "plan_id"),
                                PlanArg(args, "task_id"),
                                PlanArg(args, "update_content"), ps,
                                next_plan, next_task)
          [] action = "complete_task" ->
                IF ~(given("plan_id") /\ given("task_id"))
                THEN failed("plan_id and task_id are required for complete_task action")
                ELSE CompleteTask(PlanArg(args, "plan_id"),
                                  PlanArg(args, "task_id"), ps, next_plan,
                                  next_task)
          [] action = "get_plan" ->
                IF ~given("plan_id")
                THEN failed("plan_id is required for get_plan action")
                ELSE GetPlan(PlanArg(args, "plan_id"), ps, next_plan,
                             next_task)
          [] action = "analyze_task" ->
                IF ~given("task_description")
                THEN failed("task_description is required for analyze_task action")
                ELSE AnalyzeTask(PlanArg(args, "task_description"), ps,
                                 next_plan, next_task)
          [] OTHER -> failed("Unknown action: " \o action)

Descriptions ==
    {"Build a web app", "My WEBSITE", "REST api", "Write the report"}

\* The calls of the model.
PlanCalls ==
    {[action |-> "create_plan"], [task_description |-> "Build a web app"],
     [action |-> "drop_plan"],
     [action |-> "add_task", plan_id |-> "plan_1"],
     [action |-> "complete_task", plan_id |-> "plan_1"]}
    \cup {[action |-> "create_plan", task_description |-> d] :
             d \in Descriptions}
    \cup {[action |-> "analyze_task"], [action |-> "get_plan"],
          [action |-> "analyze_task", task_description |-> "My WEBSITE"]}
    \cup {[action |-> "get_plan", plan_id |-> p] : p \in {"plan_1", "plan_7"}}
    \cup {[action |-> "add_task", plan_id |-> p, subtask_title |-> "Review",
           subtask_description |-> "Read it again"] :
             p \in {"plan_1", "plan_7"}}
    \cup {[action |-> "update_task", plan_id |-> "plan_1", task_id |-> t,
           update_content |-> "half done"] : t \in {"task_1", "task_99"}}
    \cup {[action |-> "complete_task", plan_id |-> p, task_id |-> t] :
             p \in {"plan_1", "plan_7"}, t \in {"task_1", "task_2", "task_99"}}

\* PlanningTool.__init__ (lines 77-79)
PlanIdle ==
    /\ plans = << >>
    /\ nextPlanId = 1
    /\ nextTaskId = 1
    /\ pargs = << >>
    /\ pret = NoOutcome
    /\ pbefore = << >>
    /\ pcalls = 0

\* One call of PlanningTool.execute: it has no await, so it runs from the
\* binding of its arguments to its return in one step of the loop.
PlanningExecute ==
    /\ pcalls < MaxPlanCalls
    /\ pcalls' = pcalls + 1
    /\ pbefore' = plans
    /\ \E args \in PlanCalls :
          /\ pargs' = args
          /\ IF ExecuteBinds(PlanningExecuteParams, args)
             THEN LET o == PlanningBody(args, plans, nextPlanId, nextTaskId)
                  IN  /\ pret' = Returns(o.env)
                      /\ plans' = o.plans
                      /\ nextPlanId' = o.next_plan_id
                      /\ nextTaskId' = o.next_task_id
             ELSE /\ pret' = Raises(ExecuteMissingArgumentError)
                  /\ UNCHANGED <<plans, nextPlanId, nextTaskId>>
    /\ UNCHANGED nonPlanVars

PlanNext == PlanningExecute

(***************************************************************************)
(* planning_tool of tools.py (lines 209-250), called from a thread         *)
(* without a running event loop: it constructs a PlanningTool, runs        *)
(* execute on it once and gives back the output or "Error: " and the       *)
(* error.  plans, nextPlanId and nextTaskId are those of the instance the  *)
(* latest call constructed, pret is the wrapper's `result`.                *)
(***************************************************************************)
\* The wrapper's `action` has no default.
WrapperPlanCalls == {c \in PlanCalls : "action" \in DOMAIN c}

\* The plan identifier a caller reads in the output of create_plan.
PlanIdsIn(env) ==
    IF env.success /\ "plan_id" \in DOMAIN env.artifacts
    THEN {env.artifacts.plan_id}
    ELSE {}

PlanningToolWrapper ==
    /\ pcalls < MaxPlanCalls
    /\ pcalls' = pcalls + 1
    /\ pbefore' = << >>
    /\ \E args \in WrapperPlanCalls :
          LET o == PlanningBody(args, << >>, 1, 1)
          IN  /\ pargs' = args
              /\ pret' = Returns(o.env)
              /\ plans' = o.plans
              /\ nextPlanId' = o.next_plan_id
              /\ nextTaskId' = o.next_task_id
              /\ issued' = issued \cup PlanIdsIn(o.env)
    /\ UNCHANGED nonPlanWrapperVars


(***************************************************************************)
(* The wrapper functions of tools.py.  Each constructs its adapter and     *)
(* runs execute with the same few lines (bash_tool: lines 61-73).          *)
(***************************************************************************)
Wrappers ==
    {"bash_tool", "python_executor_tool", "safe_python_executor_tool",
     "file_editor_tool", "file_reader_tool", "file_writer_tool",
     "planning_tool", "vnc_tool"}

\* The calling thread: its event loop is running (the wrapper is called
\* from a coroutine or a callback), it has a current loop that is not
\* running, or it has no current loop at all (a thread other than the main
\* one).
Threads == {"running", "current", "none"}

\* asyncio.get_event_loop on a thread without a current loop.
NoCurrentLoopError ==
    Exc("RuntimeError", "There is no current event loop in thread 'Thread-1'.")
\* loop.run_until_complete on a loop that is running.
AlreadyRunningError == Exc("RuntimeError", "This event loop is already running")
\* `.success` of a value that is no Envelope.
NoSuccessError ==
    Exc("AttributeError", "'NoneType' object has no attribute 'success'")

\* `except RuntimeError` (line 66).
WrapperCatches(cls) == IsInstance(cls, "RuntimeError")

WrapIdle ==
    /\ wname = ""
    /\ wthread = "none"
    /\ wbehaviour = NoOutcome
    /\ wpc = "idle"
    /\ wresult = NoOutcome
    /\ wruns = 0
    /\ wret = NoReturn

\* The wrapper is called; a call that is over makes room for the next.
WrapperCall ==
    /\ wpc \in {"idle", "done"}
    /\ \E w \in Wrappers, th \in Threads :
       \E b \in Behaviours(w) :
          /\ wname' = w
          /\ wthread' = th
          /\ wbehaviour' = b
    /\ wpc' = "get_event_loop"
    /\ wresult' = NoOutcome
    /\ wruns' = 0
    /\ wret' = NoReturn
    /\ UNCHANGED nonWrapVars

\* loop = asyncio.get_event_loop() (line 63): without a current loop it
\* raises, and the handler of line 66 takes what it raises.
WrapperGetEventLoop ==
    /\ wpc = "get_event_loop"
    /\ wpc' = IF wthread = "none" /\ WrapperCatches(NoCurrentLoopError.cls)
              THEN "except"
              ELSE "run_until_complete"
    /\ UNCHANGED <<wname, wthread, wbehaviour, wresult, wruns, wret>>
    /\ UNCHANGED nonWrapVars

\* What running execute to its end leaves of the call: the result is bound,
\* or the exception goes to `handler` if that catches it, else to the caller.
WrapperRan(catches) ==
    /\ wruns' = wruns + 1
    /\ IF wbehaviour.kind = "raise"
       THEN IF catches /\ WrapperCatches(wbehaviour.exc.cls)
            THEN /\ wpc' = "except"
                 /\ UNCHANGED <<wresult, wret>>
            ELSE /\ wpc' = "done"
                 /\ wret' = Propagate(wbehaviour.exc)
                 /\ UNCHANGED wresult
       ELSE /\ wpc' = "result"
            /\ wresult' = wbehaviour
            /\ UNCHANGED wret

\* result = loop.run_until_complete(tool_instance.execute(...)) (line 64):
\* a running loop refuses, and the handler of line 66 takes that
\* RuntimeError as it takes one that execute raises.
WrapperRunUntilComplete ==
    /\ wpc = "run_until_complete"
    /\ IF wthread = "running" /\ WrapperCatches(AlreadyRunningError.cls)
       THEN /\ wpc' = "except"
            /\ UNCHANGED <<wresult, wruns, wret>>
       ELSE WrapperRan(TRUE)
    /\ UNCHANGED <<wname, wthread, wbehaviour>>
    /\ UNCHANGED nonWrapVars

\* result = asyncio.run(tool_instance.execute(...)) (line 67), inside the
\* handler: nothing catches what it raises.
WrapperAsyncioRun ==
    /\ wpc = "except"
    /\ IF wthread = "running"
       THEN /\ wpc' = "done"
            /\ wret' = Propagate(NestedRunError)
            /\ UNCHANGED <<wresult, wruns>>
       ELSE WrapperRan(FALSE)
    /\ UNCHANGED <<wname, wthread, wbehaviour>>
    /\ UNCHANGED nonWrapVars

\* Lines 69-72.
WrapperProject ==
    /\ wpc = "result"
    /\ wpc' = "done"
    /\ wret' = IF wresult.kind # "envelope" THEN Propagate(NoSuccessError)
               ELSE IF wresult.env.success THEN ReturnStr(wresult.env.output)
               ELSE ReturnStr("Error: " \o Format(wresult.env.error))
    /\ UNCHANGED <<wname, wthread, wbehaviour, wresult, wruns>>
    /\ UNCHANGED nonWrapVars

WrapNext ==
    \/ WrapperCall
    \/ WrapperGetEventLoop
    \/ WrapperRunUntilComplete
    \/ WrapperAsyncioRun
    \/ WrapperProject

(***************************************************************************)
(* The registry of the package (__init__.py).                              *)
(***************************************************************************)
\* The modules tools.py imports inside try / except ImportError
\* (tools.py lines 18-46).
OptionalModules ==
    {"web_search", "browser", "web_crawler", "chat_completion", "vnc", "macos"}

Entry(name, cls, module) == [name |-> name, cls |-> cls, module |-> module]

\* _ALL_TOOLS (lines 84-118), in the order of the dict.
AllTools ==
    << Entry("bash_tool", "BashTool", "core"),
       Entry("python_executor_tool", "PythonExecutorTool", "core"),
       Entry("safe_python_executor_tool", "SafePythonExecutorTool", "core"),
       Entry("file_editor_tool", "FileEditorTool", "core"),
       Entry("file_reader_tool", "SimpleFileReaderTool", "core"),
       Entry("file_writer_tool", "SimpleFileWriterTool", "core"),
       Entry("planning_tool", "PlanningTool", "core"),
       Entry("web_search_tool", "WebSearchTool", "web_search"),
       Entry("duckduckgo_search_tool", "DuckDuckGoSearchTool", "web_search"),
       Entry("google_search_tool", "GoogleSearchTool", "web_search"),
       Entry("bing_search_tool", "BingSearchTool", "web_search"),
       Entry("web_crawler_tool", "WebCrawlerTool", "web_crawler"),
       Entry("simple_web_scraper_tool", "SimpleWebScraperTool", "web_crawler"),
       Entry("browser_tool", "BrowserTool", "browser"),
       Entry("simple_browser_tool", "SimpleBrowserTool", "browser"),
       Entry("macos_tool", "MacOSUseTool", "macos"),
       Entry("simple_macos_tool", "SimpleMacOSTool", "macos"),
       Entry("chat_completion_tool", "ChatCompletionTool", "chat_completion"),
       Entry("simple_prompt_tool", "SimplePromptTool", "chat_completion"),
       Entry("vnc_computer_tool", "VNCComputerUseTool", "vnc"),
       Entry("simple_vnc_computer_tool", "SimpleVNCComputerUseTool", "vnc") >>

\* A list comprehension with a condition.
Filter(seq, Keep(_)) == SelectSeq(seq, Keep)

\* AVAILABLE_TOOLS (line 121): the entries whose class is not None.
AvailableTools(inst) ==
    LET Imported(e) == e.module = "core" \/ e.module \in inst
    IN  Filter(AllTools, Imported)

AvailableNames(inst) ==
    {AvailableTools(inst)[i].name : i \in 1..Len(AvailableTools(inst))}

\* _ALL_CATEGORIES (lines 124-133).
AllCategories ==
    [execution |-> <<"bash_tool", "python_executor_tool",
                     "safe_python_executor_tool">>,
     files |-> <<"file_editor_tool", "file_reader_tool", "file_writer_tool">>,
     web |-> <<"web_search_tool", "duckduckgo_search_tool",
               "google_search_tool", "bing_search_tool", "web_crawler_tool",
               "simple_web_scraper_tool">>,
     browser |-> <<"browser_tool", "simple_browser_tool">>,
     macos |-> <<"macos_tool", "simple_macos_tool">>,
     ai |-> <<"chat_completion_tool", "simple_prompt_tool">>,
     planning |-> <<"planning_tool">>,
     vnc |-> <<"vnc_computer_tool", "simple_vnc_computer_tool">>]

\* TOOL_CATEGORIES (lines 136-140): the available tools of each category;
\* a category none of whose tools is available is left out.
ToolCategories(inst) ==
    LET Available(n) == n \in AvailableNames(inst)
        kept == {c \in DOMAIN AllCategories :
                    Filter(AllCategories[c], Available) # << >>}
    IN  [c \in kept |-> Filter(AllCategories[c], Available)]

(***************************************************************************)
(* The constructors, as far as the attribute `name` goes.                  *)
(***************************************************************************)
\* An object before any __init__ has run: it has no attribute `name`.
NewObject == [name |-> PyNone]

\* SmolTool.__init__ (base.py 57-69), which AsyncSmolTool.__init__ calls:
\* a name that is missing or empty becomes the class name in lower case
\* without 'tool'.
SmolToolInit(self, cls) ==
    IF ~Truthy(self.name)
    THEN [self EXCEPT !.name = Replace(Lower(cls), "tool", "")]
    ELSE self

\* The name each class's own __init__ assigns before it calls
\* super().__init__().
OwnName(cls) ==
    CASE cls = "BashTool" -> "bash"
      [] cls = "FileEditorTool" -> "file_editor"
      [] cls = "SimpleFileReaderTool" -> "file_reader"
      [] cls = "SimpleFileWriterTool" -> "file_writer"
      [] cls = "PlanningTool" -> "planning"
      [] cls = "WebSearchTool" -> "web_search"
      [] cls = "DuckDuckGoSearchTool" -> "duckduckgo_search"
      [] cls = "GoogleSearchTool" -> "google_search"
      [] cls = "BingSearchTool" -> "bing_search"
      [] cls = "WebCrawlerTool" -> "web_crawler"
      [] cls = "SimpleWebScraperTool" -> "simple_web_scraper"
      [] cls = "BrowserTool" -> "browser"
      [] cls = "SimpleBrowserTool" -> "simple_browser"
      [] cls = "MacOSUseTool" -> "macos"
      [] cls = "SimpleMacOSTool" -> "simple_macos"
      [] cls = "ChatCompletionTool" -> "chat_completion"
      [] cls = "SimplePromptTool" -> "simple_prompt"
      [] cls = "VNCComputerUseTool" -> "vnc_computer"
      [] cls = "SimpleVNCComputerUseTool" -> "simple_vnc_computer"

\* PythonExecutorTool.__init__ (python_executor.py 18-36)
PythonExecutorToolInit(self, cls) ==
    SmolToolInit([self EXCEPT !.name = "python_executor"], cls)

\* SafePythonExecutorTool.__init__ (python_executor.py 118-134): the
\* parent's __init__, the assignment of the name, the parent's __init__
\* once more.
SafePythonExecutorToolInit(self, cls) ==
    LET first == PythonExecutorToolInit(self, cls)
        named == [first EXCEPT !.name = "safe_python_executor"]
    IN  PythonExecutorToolInit(named, cls)

\* cls(): the object its constructor leaves.
Instantiate(cls) ==
    CASE cls = "PythonExecutorTool" -> PythonExecutorToolInit(NewObject, cls)
      [] cls = "SafePythonExecutorTool" ->
            SafePythonExecutorToolInit(NewObject, cls)
      [] OTHER -> SmolToolInit([NewObject EXCEPT !.name = OwnName(cls)], cls)

\* What a function of the registry returns: None, a class, an instance of
\* a class, a list of names or of instances, the dict of get_tool_info.
RegNone ==
    [kind |-> "None", cls |-> PyNone, items |-> << >>, name |-> PyNone]
RegClass(cls) ==
    [kind |-> "class", cls |-> cls, items |-> << >>, name |-> PyNone]
RegInstance(cls) ==
    [kind |-> "instance", cls |-> cls, items |-> << >>,
     name |-> Instantiate(cls).name]
RegList(items) ==
    [kind |-> "list", cls |-> PyNone, items |-> items, name |-> PyNone]
RegInfo(cls) ==
    [kind |-> "info", cls |-> cls, items |-> << >>, name |-> PyNone]

\* get_tool (lines 143-153): AVAILABLE_TOOLS.get(tool_name)
GetTool(inst, tool_name) ==
    IF tool_name \in AvailableNames(inst)
    THEN LET i == CHOOSE j \in 1..Len(AvailableTools(inst)) :
                     AvailableTools(inst)[j].name = tool_name
         IN  RegClass(AvailableTools(inst)[i].cls)
    ELSE RegNone

\* create_tool (lines 156-169)
CreateTool(inst, tool_name) ==
    LET tool_class == GetTool(inst, tool_name)
    IN  IF tool_class.kind = "class" THEN RegInstance(tool_class.cls)
        ELSE RegNone

\* list_tools (lines 172-184); "" stands for no category given.
ListTools(inst, category) ==
    IF category # ""
    THEN IF category \in DOMAIN ToolCategories(inst)
         THEN RegList(ToolCategories(inst)[category])
         ELSE RegList(<< >>)
    ELSE RegList([i \in 1..Len(AvailableTools(inst)) |->
                     AvailableTools(inst)[i].name])

\* get_tool_info (lines 187-214)
GetToolInfo(inst, tool_name) ==
    LET tool_class == GetTool(inst, tool_name)
    IN  IF tool_class.kind = "class" THEN RegInfo(tool_class.cls)
        ELSE RegNone

\* create_tool_suite (lines 217-236): the classes of the instances made.
CreateToolSuite(inst, tool_names) ==
    LET Made(n) == CreateTool(inst, n).kind = "instance"
        made == Filter(tool_names, Made)
    IN  RegList([i \in 1..Len(made) |-> CreateTool(inst, made[i]).cls])

\* The names and categories the callers ask for.
LookupNames ==
    {"bash", "bash_tool", "python_executor", "python_executor_tool",
     "safe_python_executor_tool",
     "file_editor", "file_editor_tool", "web_search", "web_search_tool",
     "non_existent_tool"}

LookupCategories == {"", "execution", "web", "vnc", "nonsense"}

\* create_basic_toolset and create_web_toolset (lines 240-258).
Suites ==
    { <<"bash_tool", "python_executor_tool", "file_editor_tool",
        "web_search_tool", "simple_browser_tool">>,
      <<"web_search_tool", "web_crawler_tool", "browser_tool",
        "simple_web_scraper_tool">> }

NoRegCall == [fn |-> "", arg |-> "", suite |-> << >>]

RegIdle ==
    /\ installed = {}
    /\ rpc = "unimported"
    /\ rcall = NoRegCall
    /\ rret = RegNone

\* import smolagents_tools: each optional module is there or is not.
Import ==
    /\ rpc = "unimported"
    /\ installed' \in SUBSET OptionalModules
    /\ rpc' = "ready"
    /\ UNCHANGED <<rcall, rret>>
    /\ UNCHANGED nonRegVars

RegCalled(fn, arg, suite, value) ==
    /\ rpc = "ready"
    /\ rcall' = [fn |-> fn, arg |-> arg, suite |-> suite]
    /\ rret' = value
    /\ UNCHANGED <<installed, rpc>>
    /\ UNCHANGED nonRegVars

GetToolCall ==
    \E n \in LookupNames :
        RegCalled("get_tool", n, << >>, GetTool(installed, n))

CreateToolCall ==
    \E n \in LookupNames :
        RegCalled("create_tool", n, << >>, CreateTool(installed, n))

ListToolsCall ==
    \E c \in LookupCategories :
        RegCalled("list_tools", c, << >>, ListTools(installed, c))

GetToolInfoCall ==
    \E n \in LookupNames :
        RegCalled("get_tool_info", n, << >>, GetToolInfo(installed, n))

CreateToolSuiteCall ==
    \E names \in Suites :
        RegCalled("create_tool_suite", "", names,
                  CreateToolSuite(installed, names))

RegNext ==
    \/ Import
    \/ GetToolCall
    \/ CreateToolCall
    \/ ListToolsCall
    \/ GetToolInfoCall
    \/ CreateToolSuiteCall

(***************************************************************************)
(* BrowserTool.execute (browser.py 215-291).  A handle is TRUE when the    *)
(* attribute holds an object and FALSE when it is None.  Every await on    *)
(* Playwright either returns or raises.                                    *)
(***************************************************************************)
\* The attributes in the order _ensure_browser assigns them.
EnsureOrder == <<"playwright", "browser", "context", "page">>

\* The attributes in the order _close_browser closes them.
CloseOrder == <<"page", "context", "browser", "playwright">>

\* __init__ (lines 64-67)
NoHandles ==
    [playwright |-> FALSE, browser |-> FALSE, context |-> FALSE,
     page |-> FALSE]

\* The actions the callers ask for, "fly" being one execute does not know.
BrowserActions == {"navigate", "wait", "close", "fly"}

Urls == {PyNone, "http://a"}

NoBrowserCall == [action |-> "", url |-> PyNone]

BrowserIdle ==
    /\ handles = NoHandles
    /\ bpc = "idle"
    /\ bcall = NoBrowserCall
    /\ bstep = 1
    /\ bret = NoOutcome

BrowserReturn(e) ==
    /\ bpc' = "returned"
    /\ bret' = Returns(e)

\* execute's `except Exception` (lines 287-291)
BrowserToolError(msg) ==
    BrowserReturn(SmolToolResult("", "Browser tool error: " \o msg, FALSE))

\* The first attribute _close_browser finds set; 0 when there is none.
FirstSet ==
    IF \E i \in 1..Len(CloseOrder) : handles[CloseOrder[i]]
    THEN CHOOSE i \in 1..Len(CloseOrder) :
             /\ handles[CloseOrder[i]]
             /\ \A j \in 1..(i - 1) : ~handles[CloseOrder[j]]
    ELSE 0

\* execute is called: `close` goes to _close_browser, any other action to
\* _ensure_browser, which does nothing when _browser is set (line 72).
BrowserExecute ==
    /\ bpc = "idle"
    /\ \E a \in BrowserActions, u \in Urls :
          /\ bcall' = [action |-> a, url |-> u]
          /\ bpc' = IF a = "close" THEN "close"
                    ELSE IF handles.browser THEN "act"
                    ELSE "ensure"
    /\ bstep' = 1
    /\ UNCHANGED <<handles, bret>>
    /\ UNCHANGED nonBrowserVars

\* _ensure_browser (lines 73-76): the four awaits one after the other,
\* each assigning its attribute when it returns.
EnsureAwait ==
    /\ bpc = "ensure"
    /\ \/ /\ handles' = [handles EXCEPT ![EnsureOrder[bstep]] = TRUE]
          /\ IF bstep = Len(EnsureOrder)
             THEN bpc' = "act" /\ bstep' = 1
             ELSE bpc' = bpc /\ bstep' = bstep + 1
          /\ UNCHANGED bret
       \/ /\ BrowserToolError("cannot start " \o EnsureOrder[bstep])
          /\ UNCHANGED <<handles, bstep>>
    /\ UNCHANGED bcall
    /\ UNCHANGED nonBrowserVars

\* _close_browser (lines 78-90): each attribute that is set is closed and
\* then assigned None; when none is left execute returns (lines 233-237).
CloseAwait ==
    /\ bpc = "close"
    /\ IF FirstSet = 0
       THEN /\ BrowserReturn(SmolToolResult(
                   "Browser closed successfully", "", TRUE))
            /\ UNCHANGED handles
       ELSE \/ /\ handles' = [handles EXCEPT ![CloseOrder[FirstSet]] = FALSE]
               /\ UNCHANGED <<bpc, bret>>
            \/ /\ BrowserToolError("cannot close " \o CloseOrder[FirstSet])
               /\ UNCHANGED handles
    /\ UNCHANGED <<bcall, bstep>>
    /\ UNCHANGED nonBrowserVars

\* The action itself (lines 242-285): navigate works on self._page
\* (lines 92-105), wait sleeps (lines 201-213).
BrowserAct ==
    /\ bpc = "act"
    /\ CASE bcall.action = "navigate" ->
              IF ~Truthy(bcall.url)
              THEN BrowserReturn(SmolToolResult("",
                       "URL is required for navigate action", FALSE))
              ELSE IF ~handles.page
              THEN BrowserReturn(SmolToolResult("",
                       "Failed to navigate to " \o bcall.url
                       \o ": 'NoneType' object has no attribute 'goto'",
                       FALSE))
              ELSE \/ BrowserReturn(SmolToolResult(
                          "Successfully navigated to " \o bcall.url
                          \o ". Page title: T", "", TRUE))
                   \/ BrowserReturn(SmolToolResult("",
                          "Failed to navigate to " \o bcall.url
                          \o ": net::ERR_FAILED", FALSE))
         [] bcall.action = "wait" ->
              BrowserReturn(SmolToolResult("Waited 1000ms", "", TRUE))
         [] OTHER ->
              BrowserReturn(SmolToolResult("",
                  "Unknown action: " \o bcall.action, FALSE))
    /\ UNCHANGED <<handles, bcall, bstep>>
    /\ UNCHANGED nonBrowserVars

\* The caller has its result and goes on to its next call.
BrowserNextCall ==
    /\ bpc = "returned"
    /\ bpc' = "idle"
    /\ bcall' = NoBrowserCall
    /\ bret' = NoOutcome
    /\ UNCHANGED <<handles, bstep>>
    /\ UNCHANGED nonBrowserVars

BrowserNext ==
    \/ BrowserExecute
    \/ EnsureAwait
    \/ CloseAwait
    \/ BrowserAct
    \/ BrowserNextCall

Init ==
    /\ BrowserIdle
    /\ issued = {}
    /\ BridgeIdle
    /\ EnvIdle
    /\ ExecIdle
    /\ FileIdle
    /\ PlanIdle
    /\ RaceIdle
    /\ WrapIdle
    /\ RegIdle

\* The bridge: one call of forward.
Next == BridgeNext

Spec == Init /\ [][Next]_vars

\* Envelopes alone.
EnvSpec == Init /\ [][EnvNext]_vars

\* The adapters: calls of execute, one after the other.
ExecSpec == Init /\ [][ExecNext]_vars

\* The file editor: calls of its execute, one after the other.
FileSpec == Init /\ [][FileNext]_vars

\* The file editor in a long editing session.
EditSpec == Init /\ [][EditNext]_vars

\* The planning tool: calls of its execute, one after the other.
PlanSpec == Init /\ [][PlanNext]_vars

\* Processes that connect and disconnect through the one state file.
RaceSpec == Init /\ [][RaceNext]_vars

VncSpec == Init /\ [][VncNext]_vars

PlanWrapperSpec == Init /\ [][PlanningToolWrapper]_vars

BrowserSpec == Init /\ [][BrowserNext]_vars

\* The wrapper functions: calls of them, one after the other.
WrapSpec == Init /\ [][WrapNext]_vars

\* The registry: the import of the package, then calls of its functions.
RegSpec == Init /\ [][RegNext]_vars

\* The threads and loops of the bridge keep running: a thread that can take
\* its next step takes it.
FairSpec == Spec /\ WF_vars(Next)


(***************************************************************************)
(* Properties of the bridge.                                               *)
(***************************************************************************)
ArgumentsBind == Binds(ForwardParams(Inputs(tool)), supplied)

\* An input that is declared required and that the caller left out.
MissingRequired ==
    \E i \in 1..Len(Inputs(tool)) :
        Inputs(tool)[i].required /\ Inputs(tool)[i].name \notin DOMAIN supplied

\* C1: a call of forward whose arguments bind never raises: whatever
\* execute raises, and whichever part of the bridge fails, forward hands
\* its caller a string, with or without a running loop.
C1_ForwardNeverRaises ==
    (pc = "done" /\ ArgumentsBind) => ret.kind = "str"

\* An exception raised by execute in the worker thread, under a running
\* loop, came back as a string.
C1_Witness ==
    /\ pc = "done"
    /\ loopRunning
    /\ Len(runs) = 1
    /\ behaviour.kind = "raise"
    /\ behaviour.exc.cls = "NotImplementedError"
    /\ ret.kind = "str"

C2_Safe ==
    (pc = "done" /\ result.kind = "envelope") =>
        /\ Len(runs) = 1
        /\ runs[1].loop # "caller_loop"
        /\ runs[1].thread = (IF loopRunning THEN "worker" ELSE "caller")
        /\ loopRunning => worker = "finished"
        /\ ret = ReturnStr(SmolToolResultStr(behaviour.env))

\* C2: with a loop already running on the calling thread forward does not
\* deadlock: execute runs once, in the worker thread on the worker's own
\* loop, the blocked caller goes on once the worker has finished, and
\* forward returns the string of the Envelope that awaiting execute gives;
\* without a running loop execute runs on a transient loop of the caller.
C2_NoDeadlockSameResult ==
    /\ [](C2_Safe)
    /\ [](pc = "blocked" => <>(pc = "done"))

C2_Witness ==
    /\ pc = "done"
    /\ loopRunning
    /\ behaviour.kind = "envelope"
    /\ ~behaviour.env.success
    /\ Len(runs) = 1
    /\ runs[1].thread = "worker"
    /\ ret.kind = "str"

\* C3: for every Envelope r that execute returns, forward returns the flat
\* string str(r): r.output when r.success, "Error: " and r.error when not.
C3_ForwardIsStringOfEnvelope ==
    (pc = "done" /\ result.kind = "envelope") =>
        /\ ret.kind = "str"
        /\ ret.val = SmolToolResultStr(result.env)
        /\ ret.val = (IF result.env.success THEN result.env.output
                      ELSE "Error: " \o Format(result.env.error))

C3_Witness ==
    /\ pc = "done"
    /\ result.kind = "envelope"
    /\ ~result.env.success
    /\ result.env.error = "boom"
    /\ result.env.output = "done"
    /\ ret = ReturnStr("Error: boom")

\* The declared default of an input: the value under 'default', None when
\* there is none.
DeclaredDefault(def) == def.default

\* C4: the generated forward matches the declared inputs: one parameter per
\* input, no default on a required one, the declared default on every
\* other one, so that an optional argument left out reaches execute with
\* its declared default.
C4_ForwardMatchesInputs ==
    pc # "idle" =>
        LET ins == Inputs(tool)
            ps == ForwardParams(ins)
        IN  /\ Len(ps) = Len(ins)
            /\ \A i \in 1..Len(ins) :
                  /\ ps[i].name = ins[i].name
                  /\ ins[i].required => ~ps[i].has_default
                  /\ ~ins[i].required =>
                        /\ ps[i].has_default
                        /\ ps[i].default = DeclaredDefault(ins[i])
            /\ \A k \in 1..Len(runs) : \A i \in 1..Len(ins) :
                  (~ins[i].required /\ ins[i].name \notin DOMAIN supplied)
                      => runs[k].args[ins[i].name] = DeclaredDefault(ins[i])

\* C5: forward called without a required parameter returns a string that
\* begins with "Error:" and does not raise.
C5_MissingRequiredIsErrorString ==
    (pc = "done" /\ MissingRequired) =>
        /\ ret.kind = "str"
        /\ StartsWith(ret.val, "Error:")

\* C7: when execute raises an exception with message m, forward returns
\* "Error: m", for every exception class and on both paths of the bridge.
C7_RaisedMessageIsErrorString ==
    (pc = "done" /\ Len(runs) > 0 /\ behaviour.kind = "raise") =>
        ret = ReturnStr("Error: " \o behaviour.exc.msg)

(***************************************************************************)
(* Properties of the Envelope.                                             *)
(***************************************************************************)
\* C9: to_dict() keeps success, output and error exactly as the Envelope
\* holds them, and has the key base64_image (system) exactly when that
\* field is set to a non-empty value.
C9_ToDictKeepsFields ==
    projection # NoDict =>
        /\ {"success", "output", "error"} \subseteq DOMAIN projection
        /\ projection["success"] = envelope.success
        /\ projection["output"] = envelope.output
        /\ projection["error"] = envelope.error
        /\ "base64_image" \in DOMAIN projection
              <=> envelope.base64_image \notin {"", PyNone}
        /\ "system" \in DOMAIN projection
              <=> envelope.system \notin {"", PyNone}

\* A failed Envelope with a system note and no image has been projected.
C9_Witness ==
    /\ projection # NoDict
    /\ ~envelope.success
    /\ envelope.error = "boom"
    /\ envelope.system = "tool must be restarted"
    /\ envelope.base64_image = ""
    /\ DOMAIN projection = {"output", "error", "success", "artifacts", "system"}

(***************************************************************************)
(* Claims about the adapters' execute.                                     *)
(***************************************************************************)
\* The call of execute leaves out an input the adapter declares required,
\* or asks VNC to connect without a host.
ExecuteMissingRequired ==
    \/ \E i \in 1..Len(Inputs(adapter)) :
          /\ Inputs(adapter)[i].required
          /\ Inputs(adapter)[i].name \notin DOMAIN eargs
    \/ /\ adapter = "vnc_computer"
       /\ "action" \in DOMAIN eargs
       /\ eargs["action"] = "connect"
       /\ "host" \notin DOMAIN eargs

\* C6: execute called without a parameter the adapter requires returns an
\* Envelope with success False and a non-empty error instead of raising.
C6_MissingRequiredIsFailedEnvelope ==
    (epc \in {"returned", "raised"} /\ adapter \in Adapters
        /\ ExecuteMissingRequired)
    => /\ epc = "returned"
       /\ ~eret.env.success
       /\ Truthy(eret.env.error)

\* C8: an Envelope that execute returns with success True has an empty
\* error, as for BashSession.run when the command ended in time.
C8_SuccessHasNoError ==
    (epc = "returned" /\ eret.env.success) => ~Truthy(eret.env.error)

\* C10: when the deadline of a wait expires, execute returns an Envelope
\* with success False whose output is what the process had written by then.
C10_TimeoutKeepsPartialOutput ==
    (epc = "returned" /\ atDeadline.expired)
    => /\ ~eret.env.success
       /\ eret.env.output \in {atDeadline.stdout,
                                StripNewline(atDeadline.stdout)}

\* C11: when the deadline of a wait expires, the process the adapter was
\* waiting on has been terminated by the time execute returns: no timeout
\* Envelope is returned with that process still running.
C11_TimeoutReclaimsProcess ==
    (epc = "returned" /\ atDeadline.expired)
    => /\ ~child.alive
       /\ adapter = "bash" => ~session.alive

\* C12: inside execute every wait on a process is a cooperative suspension:
\* while execute waits, the other tasks of the same loop can run.
C12_WaitsAreSuspensions ==
    (epc \in {"wait", "join"} /\ ~yielded) => ENABLED OtherTaskRuns

(***************************************************************************)
(* Claims about the file editor.                                           *)
(***************************************************************************)
\* The last call of the file editor was bound and ran this command.
FileRan(command) ==
    /\ fret.kind = "envelope"
    /\ fargs["command"] = command

\* C13: view with a view_range that cannot be parsed as two integers is
\* refused: the Envelope has success False and carries no file content.
C13_MalformedRangeRejected ==
    (/\ FileRan("view")
     /\ "view_range" \in DOMAIN fargs
     /\ ~ParseRange(fargs["view_range"]).ok)
    => /\ ~fret.env.success
       /\ fret.env.output = ""

\* The places of s at which sub occurs.
Occurrences(s, sub) ==
    {i \in 1..(Len(s) - Len(sub) + 1) : SubSeq(s, i, i + Len(sub) - 1) = sub}

\* C14: str_replace on an existing file succeeds exactly when old_str
\* occurs once in the content; then the new content is the old one with
\* that occurrence replaced by new_str; with no occurrence or with several
\* the Envelope has success False and the content is unchanged.
C14_StrReplaceIffUnique ==
    (/\ FileRan("str_replace")
     /\ {"old_str", "new_str"} \subseteq DOMAIN fargs
     /\ Exists(fbefore[fargs["path"]]))
    => LET p == fargs["path"]
           old == fargs["old_str"]
           content == Content(fbefore[p])
           at == Occurrences(content, old)
       IN  /\ fret.env.success <=> Cardinality(at) = 1
           /\ Cardinality(at) = 1 =>
                 \A i \in at :
                    fs[p] = File(SubSeq(content, 1, i - 1) \o fargs["new_str"]
                                 \o From(content, i + Len(old)))
           /\ Cardinality(at) # 1 => fs[p] = fbefore[p]

PlanRan(action) ==
    /\ pret.kind = "envelope"
    /\ pargs["action"] = action

\* The description names a web app or a website, in any case of letters.
IsWeb(task_description) ==
    \/ Contains(Lower(task_description), "web app")
    \/ Contains(Lower(task_description), "website")

\* A plan for a web app or website as create_plan left it.
FreshWebPlan(plan) ==
    /\ IsWeb(plan.title)
    /\ Len(plan.tasks) = 6
    /\ \A i \in 1..Len(plan.tasks) : plan.tasks[i].status = "pending"

\* C16: create_plan for a description with 'web app' or 'website' in it, in
\* any case of letters, returns the identifier of a new plan with exactly
\* six subtasks, all pending; complete_task on the first of them then
\* reports 1 completed task of 6.
C16_WebPlanHasSixSubtasks ==
    /\ (/\ PlanRan("create_plan")
        /\ "task_description" \in DOMAIN pargs
        /\ IsWeb(pargs["task_description"]))
       => LET a == pret.env.artifacts
          IN  /\ pret.env.success
              /\ a.plan_id \notin DOMAIN pbefore
              /\ a.plan_id \in DOMAIN plans
              /\ a.plan = plans[a.plan_id]
              /\ FreshWebPlan(a.plan)
    /\ (/\ PlanRan("complete_task")
        /\ {"plan_id", "task_id"} \subseteq DOMAIN pargs
        /\ pargs["plan_id"] \in DOMAIN pbefore
        /\ FreshWebPlan(pbefore[pargs["plan_id"]])
        /\ pargs["task_id"] = pbefore[pargs["plan_id"]].tasks[1].id)
       => /\ pret.env.success
          /\ pret.env.artifacts.progress.completed_tasks = 1
          /\ pret.env.artifacts.progress.total_tasks = 6
          /\ Contains(pret.env.output, "Plan progress: 16.7% complete")

\* The first subtask of a plan made for "My WEBSITE" has been completed.
C16_Witness ==
    /\ PlanRan("complete_task")
    /\ "plan_1" \in DOMAIN plans
    /\ plans["plan_1"].title = "My WEBSITE"
    /\ plans["plan_1"].tasks[1].status = "completed"
    /\ plans["plan_1"].progress = Progress(6, 1, 0, 5)
    /\ pret.env.success

(***************************************************************************)
(* C17  A newly constructed VNCComputerUseTool on which connect has not    *)
(* succeeded is not connected: once execute is past its body on a          *)
(* mouse_move, key_press or type_text with its arguments present, it has    *)
(* returned an Envelope with success False and an error containing          *)
(* "Not connected", and no vncdotool process was started, whatever other    *)
(* instances did before.                                                     *)
(***************************************************************************)
C17_NewToolNotConnected ==
    (/\ adapter = "vnc_computer"
     /\ ~ownConnect
     /\ epc \in {"wait", "returned"}
     /\ IsCommandAction(Arg("action"))
     /\ VncMissing(Arg("action")) = "")
    => /\ epc = "returned"
       /\ eret.kind = "envelope"
       /\ ~eret.env.success
       /\ Contains(eret.env.error, "Not connected")
       /\ child = NoChild

(***************************************************************************)
(* C18  The state file is written without a lock and without being read    *)
(* again, so two processes race on it: whenever a process p is past the     *)
(* first setter of its connect and its latest setter found on the file the  *)
(* complete state of a connect that another process q has finished since,   *)
(* to a different host, then what the file holds now is p's dict:           *)
(* connected_host and connection_string are p's, nothing of q's finished    *)
(* connect is left, though p's setter assigned one key only.                *)
(***************************************************************************)
LostTo(p, q) ==
    /\ p # q
    /\ saver = p
    /\ pop[p].action = "connect"
    /\ ppc[p] \in {Keys[3], "done"}
    /\ pop[q].action = "connect"
    /\ ppc[q] = "done"
    /\ pop[q].values.connected_host # pop[p].values.connected_host
    /\ found = SaveVncState(pop[q].values)

C18_StaleSetterLosesUpdate ==
    \A p \in Procs, q \in Procs :
        LostTo(p, q)
        => /\ vncFile.exists
           /\ vncFile.state.connected_host = pop[p].values.connected_host
           /\ vncFile.state.connected_host # pop[q].values.connected_host
           /\ vncFile.state.connection_string # pop[q].values.connection_string

\* q's connect finished between two setters of p's, and p's second
\* setter, assigning connection_string, has put p's stale dict in the place
\* of q's state: both connects gave a password, the file holds none.
C18_Witness ==
    \E p \in Procs, q \in Procs :
        /\ LostTo(p, q)
        /\ ppc[p] = Keys[3]
        /\ pop[p].values.password = "secret"
        /\ pop[q].values.password = "secret"
        /\ vncFile.state.password = PyNone
        /\ vncFile.state.connection_string = pop[p].values.connection_string

(***************************************************************************)
(* C19  A wrapper function of tools.py that is over has returned a string  *)
(* to its caller and has not raised, on a thread with no running event     *)
(* loop as on a thread whose event loop is running.                        *)
(***************************************************************************)
C19_WrapperReturnsString == wpc = "done" => wret.kind = "str"

(***************************************************************************)
(* C20  After construction of an adapter every input of its descriptor     *)
(* that is not required carries a default value and is marked nullable,    *)
(* and an input declared required is left as declared.                     *)
(***************************************************************************)
C20_OptionalInputsHaveDefault ==
    pc # "idle" =>
        /\ Len(selfInputs) = Len(Inputs(tool))
        /\ \A i \in 1..Len(selfInputs) :
              /\ selfInputs[i].name = Inputs(tool)[i].name
              /\ selfInputs[i].required = Inputs(tool)[i].required
              /\ ~selfInputs[i].required =>
                    /\ selfInputs[i].has_default
                    /\ selfInputs[i].nullable
              /\ selfInputs[i].required =>
                    /\ selfInputs[i].has_default = Inputs(tool)[i].has_default
                    /\ selfInputs[i].default = Inputs(tool)[i].default
                    /\ selfInputs[i].nullable = DeclaredNullable(Inputs(tool)[i])

(***************************************************************************)
(* C21  The registry is keyed by the adapters' names: once the package is  *)
(* imported, 'bash', 'python_executor' and 'file_editor' (and 'web_search' *)
(* when its module could be imported) are keys of AVAILABLE_TOOLS,          *)
(* get_tool('bash') has returned the class BashTool and create_tool('bash') *)
(* an instance of it, list_tools('execution') holds 'bash' and              *)
(* 'python_executor', and get_tool, create_tool and get_tool_info have      *)
(* returned None for a name that is no key.                                 *)
(***************************************************************************)
InList(items, x) == \E i \in 1..Len(items) : items[i] = x

C21_RegistryByAdapterName ==
    rpc = "ready" =>
        /\ {"bash", "python_executor", "file_editor"}
               \subseteq AvailableNames(installed)
        /\ "web_search" \in installed
               => "web_search" \in AvailableNames(installed)
        /\ (rcall.fn = "get_tool" /\ rcall.arg = "bash")
               => rret = RegClass("BashTool")
        /\ (rcall.fn = "create_tool" /\ rcall.arg = "bash")
               => rret = RegInstance("BashTool")
        /\ (rcall.fn = "list_tools" /\ rcall.arg = "execution")
               => /\ InList(rret.items, "bash")
                  /\ InList(rret.items, "python_executor")
        /\ (/\ rcall.fn \in {"get_tool", "create_tool", "get_tool_info"}
            /\ rcall.arg \notin AvailableNames(installed))
               => rret = RegNone

(***************************************************************************)
(* C22  The undo history of a path holds exactly the pre-images of the     *)
(* successful str_replace edits not yet undone: a successful str_replace   *)
(* has added the content it found, a str_replace that failed has added     *)
(* nothing, a successful undo_edit has taken the latest one off and made    *)
(* it the content of the file, and a failed undo_edit has changed nothing.  *)
(***************************************************************************)
C22_HistoryHoldsSuccessfulEdits ==
    (fret.kind = "envelope" /\ "path" \in DOMAIN fargs) =>
        LET p == fargs["path"]
            before == sbefore[p]
        IN  /\ (FileRan("str_replace") /\ fret.env.success)
                   => fileStates[p] = Append(before, Content(fbefore[p]))
            /\ (FileRan("str_replace") /\ ~fret.env.success)
                   => fileStates[p] = before
            /\ (FileRan("undo_edit") /\ fret.env.success)
                   => /\ before # << >>
                      /\ fs[p] = File(before[Len(before)])
                      /\ fileStates[p] = SubSeq(before, 1, Len(before) - 1)
            /\ (FileRan("undo_edit") /\ ~fret.env.success)
                   => /\ fileStates[p] = before
                      /\ fs[p] = fbefore[p]

(***************************************************************************)
(* C29  The undo history of each path holds at most 10 saved contents:     *)
(* when an eleventh is saved the oldest is dropped and the ten latest are   *)
(* kept, and an undo_edit that finds no saved content returns success      *)
(* False with 'No previous state found' and leaves the file as it is.      *)
(***************************************************************************)
C29_HistoryHoldsAtMostTen ==
    /\ \A p \in Paths : Len(fileStates[p]) <= MaxFileStates
    /\ (fret.kind = "envelope" /\ "path" \in DOMAIN fargs) =>
          LET p == fargs["path"]
              before == sbefore[p]
          IN  /\ (/\ FileRan("str_replace")
                  /\ Exists(fbefore[p])
                  /\ Len(before) = MaxFileStates)
                     => fileStates[p] =
                           Append(Tail(before), Content(fbefore[p]))
              /\ (FileRan("undo_edit") /\ before = << >>)
                     => /\ ~fret.env.success
                        /\ Contains(fret.env.error, "No previous state found")
                        /\ fs[p] = fbefore[p]
                        /\ fileStates[p] = << >>

\* An eleventh content has been saved by a successful str_replace and the
\* oldest of the ten found, another content than the one now oldest, is
\* gone.
C29_Witness ==
    /\ FileRan("str_replace")
    /\ fret.env.success
    /\ Len(sbefore[fargs["path"]]) = MaxFileStates
    /\ Len(fileStates[fargs["path"]]) = MaxFileStates
    /\ sbefore[fargs["path"]][1] # fileStates[fargs["path"]][1]

(***************************************************************************)
(* C23  The progress counters of every plan agree with its task list:      *)
(* total_tasks is the number of tasks, completed_tasks the number of tasks *)
(* with status 'completed', pending_tasks the number with status           *)
(* 'pending', the three status counters add up to total_tasks, and          *)
(* completed_tasks does not exceed total_tasks.                             *)
(***************************************************************************)
WithStatus(plan, status) ==
    Cardinality({i \in 1..Len(plan.tasks) : plan.tasks[i].status = status})

C23_CountersAgreeWithTasks ==
    \A id \in DOMAIN plans :
        LET plan == plans[id]
            progress == plan.progress
        IN  /\ progress.total_tasks = Len(plan.tasks)
            /\ progress.completed_tasks = WithStatus(plan, "completed")
            /\ progress.pending_tasks = WithStatus(plan, "pending")
            /\ progress.pending_tasks + progress.in_progress_tasks
                  + progress.completed_tasks = progress.total_tasks
            /\ progress.completed_tasks <= progress.total_tasks

(***************************************************************************)
(* C24  Once a command has timed out in a BashTool's session, every later  *)
(* execute with restart=False is over with an Envelope of success False     *)
(* and its command is not sent to the shell; an execute with restart=True   *)
(* that returns success has put a fresh started session in its place, and   *)
(* on a started session that has not timed out and whose shell runs, a      *)
(* command is sent to the shell.                                            *)
(***************************************************************************)
BashPlainCall ==
    /\ adapter = "bash"
    /\ Arg("restart") # "True"

C24_TimedOutSessionRefuses ==
    /\ [](/\ BashPlainCall
          /\ epc \in {"wait", "returned", "raised"}
          /\ session.exists
          /\ session.timed_out
          => /\ epc = "returned"
             /\ eret.kind = "envelope"
             /\ ~eret.env.success)
    /\ [](/\ adapter = "bash"
          /\ Arg("restart") = "True"
          /\ epc = "returned"
          /\ eret.env.success
          => session = StartedSession(Float(Arg("timeout"))))
    /\ [][(/\ BashBody
           /\ BashPlainCall
           /\ Arg("command") # PyNone
           /\ session.exists /\ session.started /\ session.alive
           /\ ~session.timed_out)
          => epc' = "wait" /\ session'.busy]_vars

\* A call after the one that timed out has been refused.
C24_Witness ==
    /\ BashPlainCall
    /\ epc = "returned"
    /\ session.timed_out
    /\ ~eret.env.success
    /\ Contains(eret.env.error, "must be restarted")

(***************************************************************************)
(* C25: after any sequence of operations of VNCComputerUseTool and         *)
(* SimpleVNCComputerUseTool instances in one process, whenever no call is  *)
(* under way the persisted connection state has connected_host and         *)
(* connection_string both null, or both set with the connection string     *)
(* built from that host.                                                   *)
(***************************************************************************)
DescribesHost(cs, host) ==
    \E port \in {DefaultPort, DefaultPort + 1} :
        cs = BuildConnectionString(host, port)

ConsistentVncState(state) ==
    \/ /\ state.connected_host = PyNone
       /\ state.connection_string = PyNone
    \/ /\ state.connected_host # PyNone
       /\ state.connection_string # PyNone
       /\ DescribesHost(state.connection_string, state.connected_host)

C25_PersistedStateConsistent ==
    epc \in {"idle", "returned", "raised"}
        => ConsistentVncState(LoadVncState(vncFile))

(***************************************************************************)
(* C30: a constructed SafePythonExecutorTool has the name                  *)
(* 'safe_python_executor', which is not the name of a PythonExecutorTool.  *)
(***************************************************************************)
C30_SafeExecutorPublishesOwnName ==
    (rret.kind = "instance" /\ rret.cls = "SafePythonExecutorTool")
        => /\ rret.name = "safe_python_executor"
           /\ rret.name # Instantiate("PythonExecutorTool").name

(***************************************************************************)
(* C26: whenever no call of BrowserTool.execute is under way, _browser is  *)
(* None exactly when _page is None; and an action other than close is      *)
(* performed with _page set.                                               *)
(***************************************************************************)
C26_HandlesAllSetOrAllUnset ==
    /\ bpc \in {"idle", "returned"} => (handles.browser <=> handles.page)
    /\ bpc = "act" => handles.page

(***************************************************************************)
(* C27: a call of the planning_tool wrapper with action get_plan, add_task *)
(* or complete_task, complete in its arguments, on a plan identifier that  *)
(* an earlier create_plan call of the wrapper returned, succeeds.          *)
(***************************************************************************)
ManagesIssuedPlan(args) ==
    /\ PlanArg(args, "plan_id") \in issued
    /\ \/ PlanArg(args, "action") = "get_plan"
       \/ /\ PlanArg(args, "action") = "add_task"
          /\ Truthy(PlanArg(args, "subtask_title"))
          /\ Truthy(PlanArg(args, "subtask_description"))
       \/ /\ PlanArg(args, "action") = "complete_task"
          /\ PlanArg(args, "task_id") = "task_1"

C27_WrapperManagesItsPlans ==
    [][(pcalls' = pcalls + 1 /\ ManagesIssuedPlan(pargs'))
           => (pret'.kind = "envelope" /\ pret'.env.success)]_vars

(***************************************************************************)
(* C28: a call of PlanningTool.execute with action analyze_task, or one    *)
(* that returns success=False, leaves _plans, _next_plan_id and            *)
(* _next_task_id as they were.                                             *)
(***************************************************************************)
CreatesNothing(args, outcome) ==
    /\ outcome.kind = "envelope"
    /\ \/ PlanArg(args, "action") = "analyze_task"
       \/ ~outcome.env.success

C28_NothingCreatedNothingChanged ==
    [][(pcalls' = pcalls + 1 /\ CreatesNothing(pargs', pret'))
           => UNCHANGED <<plans, nextPlanId, nextTaskId>>]_vars

====
